---------------------------- MODULE Spec2Model ----------------------------
(***************************************************************************)
(* A model of the gameplay simulation core of pixel-rogue-like:            *)
(*   EntityManager, HealthComponent, CombatSystem, SpawnController,        *)
(*   WaveManager, ProjectileManager, TileMap and ProceduralMapGenerator.   *)
(*                                                                         *)
(* Numbers.  The code works on floating point numbers; the model works on  *)
(* integers.  Health, damage and positions are integers.  Time is counted  *)
(* in ticks, TicksPerSecond ticks to the second.  Speeds, radii and the    *)
(* wave budget are kept as scaled integers (speed in hundredths, budget in *)
(* 1/TicksPerSecond of a cost unit), so that the products the code forms   *)
(* are exact in the model.                                                 *)
(***************************************************************************)
EXTENDS Integers, Sequences, FiniteSets, TLC

VARIABLES
  em,     \* EntityManager: heap of entities, the three lists, the player slot
  cs,     \* CombatSystem: flags, killCount, damageModifier, statuses
  sc,     \* SpawnController: config.maxEnemies, registry, spawnCounts
  wm,     \* WaveManager: waves, activeWave context, intermissionTimer, ...
  pm,     \* ProjectileManager: config, pool, active, nextId, (heap of records)
  tm,     \* TileMap: width, height, virtualPixelScale, per-tile state
  wc,     \* WeaponController: weapons, and the ore of its ProgressionState
  last    \* the operation performed by the last step, with what it returned

vars == <<em, cs, sc, wm, pm, tm, wc, last>>

Max(a, b) == IF a >= b THEN a ELSE b
Min(a, b) == IF a <= b THEN a ELSE b

Range(s) == {s[i] : i \in 1..Len(s)}

\* Array.prototype.filter on a list of entity ids: drop id.
Without(s, id) == SelectSeq(s, LAMBDA x : x # id)

-----------------------------------------------------------------------------
(* Bounds of the model *)

\* Time resolution: ticks per second of simulated time.
TicksPerSecond == 4
\* Largest dt (in ticks) of one update step.
MaxDt == 2
\* Largest number of status effect instances alive in all bundles together.
MaxEffects == 2
\* Largest damage / heal amount offered to applyDamage and heal.
MaxAmount == 3
\* The resolution of Math.random() and the number of draws told apart
RandomSteps == 4
RandomLen == 2

-----------------------------------------------------------------------------
(* Entity, components (part_007 Entity, part_005 HealthComponent,          *)
(* part_004 TransformComponent)                                            *)

\* new Entity(id, type): active = true, no components.
NewEntity(id, type) ==
  [id |-> id, type |-> type, active |-> TRUE,
   hasHealth |-> FALSE, max |-> 0, current |-> 0, invulnTimer |-> 0,
   hasTransform |-> FALSE, x |-> 0, width |-> 0, speed |-> 0, vx |-> 0,
   hasCollision |-> FALSE, radius |-> 0,
   hasAttack |-> FALSE, damage |-> 0, cooldown |-> 0, range |-> 0,
   timer |-> 0, lockTimer |-> 0,
   hasAI |-> FALSE, ai |-> <<>>, cooldownTimer |-> 0, lockedTimer |-> 0,
   enemyType |-> "",
   killedNotified |-> 0]   \* ghost: how often onEntityKilled fired for it

\* new HealthComponent(max, invulnFrames); max is an integer here, so
\* Math.round is the identity on it.
WithHealth(e, max, invulnFrames) ==
  [e EXCEPT !.hasHealth = TRUE, !.max = Max(1, max), !.current = Max(1, max),
            !.invulnTimer = Max(0, invulnFrames)]

\* new TransformComponent(x, y, w, h) followed by transform.speed = speed.
WithTransform(e, x, width, speed) ==
  [e EXCEPT !.hasTransform = TRUE, !.x = x, !.width = width, !.speed = speed]

\* new CollisionComponent(radius)
WithCollision(e, radius) ==
  [e EXCEPT !.hasCollision = TRUE, !.radius = Max(0, radius)]

\* new AttackComponent(damage, cooldownFrames, range): timer = lockTimer = 0.
WithAttack(e, damage, cooldownFrames, range) ==
  [e EXCEPT !.hasAttack = TRUE, !.damage = Max(0, damage),
            !.cooldown = Max(0, cooldownFrames), !.range = Max(0, range),
            !.timer = 0, !.lockTimer = 0]

\* new AIComponent(config) for a config that gives every field read by
\* EntityManager.update; cooldownTimer = lockedTimer = 0.
WithAI(e, config) ==
  [e EXCEPT !.hasAI = TRUE, !.ai = config, !.cooldownTimer = 0, !.lockedTimer = 0]

\* AttackComponent.tick
AttackTick(e, dt) ==
  [e EXCEPT !.timer = IF e.timer > 0 THEN Max(0, e.timer - dt) ELSE e.timer,
            !.lockTimer = IF e.lockTimer > 0 THEN Max(0, e.lockTimer - dt)
                          ELSE e.lockTimer]

\* AttackComponent.trigger
AttackTrigger(e) == [e EXCEPT !.timer = e.cooldown]

\* HealthComponent.heal
Heal(e, amount) ==
  IF amount <= 0 THEN e
  ELSE [e EXCEPT !.current = Min(e.max, e.current + amount)]

\* HealthComponent.takeDamage
TakeDamageMut(e, amount) == [e EXCEPT !.current = e.current - Max(0, amount)]
TakeDamage(e, amount) ==
  LET dmg == Max(0, amount) IN
  IF dmg <= 0 THEN e
  ELSE [e EXCEPT !.current = Max(0, e.current - dmg),
                 !.invulnTimer = Max(0, e.invulnTimer)]

\* HealthComponent.update
HealthUpdate(e, dt) ==
  IF e.invulnTimer > 0
  THEN [e EXCEPT !.invulnTimer = Max(0, e.invulnTimer - dt)]
  ELSE e

\* HealthComponent.isDead
IsDead(e) == e.current <= 0

-----------------------------------------------------------------------------
(* EntityManager (part_002)                                                *)

EmptyManager ==
  [ent |-> <<>>,          \* every entity ever created, by id (the heap)
   entities |-> <<>>,     \* private entities: Entity[]
   enemies |-> <<>>, pickups |-> <<>>,
   player |-> 0,          \* 0 stands for null
   nextId |-> 1]

\* EntityManager.createEntity, followed by the caller's addComponent calls,
\* which are given as the finished entity record e (its id is set here).
CreateEntity(m, e) ==
  LET id == m.nextId
      ne == [e EXCEPT !.id = id] IN
  [m EXCEPT !.ent = Append(m.ent, ne),
            !.nextId = id + 1,
            !.entities = Append(m.entities, id),
            !.player = IF e.type = "player" THEN id ELSE m.player,
            !.enemies = IF e.type = "enemy" THEN Append(m.enemies, id) ELSE m.enemies,
            !.pickups = IF e.type = "pickup" THEN Append(m.pickups, id) ELSE m.pickups]

\* EntityManager.removeEntity
RemoveEntityMut(m, id) ==
  [m EXCEPT !.ent[id].active = FALSE,
            !.entities = Without(m.entities, id)]
RemoveEntity(m, id) ==
  [m EXCEPT !.ent[id].active = FALSE,
            !.player = IF m.player = id THEN 0 ELSE m.player,
            !.entities = Without(m.entities, id),
            !.enemies = Without(m.enemies, id),
            !.pickups = Without(m.pickups, id)]

-----------------------------------------------------------------------------
(* CombatSystem (part_003)                                                 *)
(*                                                                         *)
(* The operations work on a world record W = [em, cs, dmgCalls, killCalls]:*)
(* the entity manager, the combat system, two ghost counters of the        *)
(* onDamageApplied / onEntityKilled invocations made by the running        *)
(* operation, and the ghost list of the entities whose attack handler it   *)
(* has called.                                                             *)

World(m, c) ==
  [em |-> m, cs |-> c, dmgCalls |-> 0, killCalls |-> 0, attacks |-> <<>>]

\* An effect instance: StatusEffectInstance.  pct is in tenths, dps is the
\* damage per tick.  The source reference only travels to the callbacks.
Effect(type, remaining, pct, dps) ==
  [type |-> type, remaining |-> remaining, pct |-> pct, dps |-> dps]

NoBase == -1   \* StatusState.baseMoveSpeed === undefined

\* this.statuses: a Map in insertion order, entries [id, base, effects].
HasBundle(c, id) == \E i \in 1..Len(c.statuses) : c.statuses[i].id = id
BundleOf(c, id) ==
  c.statuses[CHOOSE i \in 1..Len(c.statuses) : c.statuses[i].id = id]
\* this.statuses.delete(id)
DeleteBundle(c, id) ==
  [c EXCEPT !.statuses = SelectSeq(c.statuses, LAMBDA b : b.id # id)]
\* writes through the state object of a bundle that is still in the map
PutBundle(c, b) ==
  [c EXCEPT !.statuses =
     [i \in 1..Len(c.statuses) |->
        IF c.statuses[i].id = b.id THEN b ELSE c.statuses[i]]]

\* The damageModifier hook.  "none": no hook installed.  "resist": the
\* game's modifyIncomingDamage with full player resistance (the amount for
\* other targets).  "negate": a hook returning a negative number.
ApplyModifier(kind, e, dmg) ==
  CASE kind = "resist" -> IF e.type = "player" THEN Max(0, dmg * 0) ELSE dmg
    [] kind = "negate" -> 0 - dmg
    [] OTHER -> dmg

\* CombatSystem.handleDeath
CountsAsKill(e) == e.type = "enemy"

HandleDeath(W, t) ==
  LET c1 == IF CountsAsKill(W.em.ent[t])
            THEN [W.cs EXCEPT !.killCount = @ + 1] ELSE W.cs
      c2 == DeleteBundle(c1, t)
      m1 == [W.em EXCEPT !.ent[t].killedNotified = @ + 1]
  IN [W EXCEPT !.cs = c2, !.killCalls = @ + 1, !.em = RemoveEntity(m1, t)]

\* The three early returns of applyDamage (lines 91-100).
BlockedMut(c, e) ==
  \/ ~e.hasHealth
  \/ e.type = "player" /\ c.flags.infinitePlayerHealth
Blocked(c, e) ==
  \/ ~e.hasHealth
  \/ e.type = "player" /\ c.flags.infinitePlayerHealth
  \/ e.invulnTimer > 0

\* CombatSystem.applyDamage: [w |-> the world after, r |-> the value returned]
ApplyDamage(W, t, amount) ==
  LET e == W.em.ent[t] IN
  IF Blocked(W.cs, e) THEN [w |-> W, r |-> FALSE]
  ELSE
    LET d0 == Max(0, amount)
        d1 == IF W.cs.modifier # "none"
              THEN Max(0, ApplyModifier(W.cs.modifier, e, d0)) ELSE d0
        dmg == IF W.cs.flags.oneHitKillEnemies /\ e.type = "enemy"
               THEN e.current ELSE d1
    IN IF dmg <= 0 THEN [w |-> W, r |-> FALSE]
       ELSE
         LET e1 == TakeDamage(e, dmg)
             W1 == [W EXCEPT !.em.ent[t] = e1, !.dmgCalls = @ + 1]
         IN [w |-> IF IsDead(e1) THEN HandleDeath(W1, t) ELSE W1, r |-> TRUE]

\* CombatSystem.applyStatusEffects
ApplyStatusEffects(W, t, effects) ==
  IF ~W.em.ent[t].active \/ Len(effects) = 0 THEN W
  ELSE IF HasBundle(W.cs, t)
       THEN LET b == BundleOf(W.cs, t) IN
            [W EXCEPT !.cs = PutBundle(W.cs, [b EXCEPT !.effects = @ \o effects])]
       ELSE [W EXCEPT !.cs.statuses =
               Append(@, [id |-> t, base |-> NoBase, effects |-> effects])]

\* The slow case of updateStatuses: pct clamped to [0, 1], the multiplier
\* (in tenths) intersected with 1 - pct.
SlowCompoundMut(mult, pct) == (mult * (10 - Max(0, Min(10, pct)))) \div 10
SlowMultiplierMut(mult, pct) == Min(mult, Max(0, Min(10, pct)))
SlowMultiplier(mult, pct) == Min(mult, 10 - Max(0, Min(10, pct)))

\* health.invulnTimer = 0
SuspendedMut(e) == e
Suspended(e) == [e EXCEPT !.invulnTimer = 0]

\* One iteration of "for (const eff of state.effects)" for the effect at
\* index k of bundle entity id.  A is [w, effects, mult, stunned].
EffectStep(A, id, k, dt) ==
  LET eff == A.effects[k]
      rem == eff.remaining - dt
      effs == [A.effects EXCEPT ![k].remaining = rem]
      A1 == [A EXCEPT !.effects = effs]
  IN IF rem <= 0 THEN A1
     ELSE CASE eff.type \in {"freeze", "stun"} ->
                 [A1 EXCEPT !.stunned = TRUE, !.mult = 0]
            [] eff.type = "slow" ->
                 [A1 EXCEPT !.mult = SlowMultiplier(A.mult, eff.pct)]
            [] eff.type \in {"burn", "poison"} ->
                 IF eff.dps > 0
                 THEN LET prevInvuln == A.w.em.ent[id].invulnTimer
                          W0 == [A.w EXCEPT !.em.ent[id] = Suspended(@)]
                          W1 == ApplyDamage(W0, id, eff.dps * dt).w
                      IN [A1 EXCEPT !.w =
                            [W1 EXCEPT !.em.ent[id].invulnTimer = prevInvuln]]
                 ELSE A1
            [] OTHER -> A1

RECURSIVE EffectLoop(_, _, _, _)
EffectLoop(A, id, k, dt) ==
  IF k > Len(A.effects) THEN A
  ELSE EffectLoop(EffectStep(A, id, k, dt), id, k + 1, dt)

\* transform.speed = base * (stunned ? 0 : moveMultiplier); speeds are in
\* hundredths and the multiplier in tenths.
LiveSpeed(base, stunned, mult) == (base * (IF stunned THEN 0 ELSE mult)) \div 10

\* if (state.baseMoveSpeed === undefined) state.baseMoveSpeed = transform.speed
BaseMoveSpeedMut(state, e) == e.speed
BaseMoveSpeed(state, e) == IF state.base = NoBase THEN e.speed ELSE state.base

\* The body of the loop of updateStatuses for the bundle of entity id.
StatusStep(W, id, dt) ==
  IF ~HasBundle(W.cs, id) THEN W
  ELSE
  LET state == BundleOf(W.cs, id)
      found == id \in Range(W.em.entities) /\ W.em.ent[id].active
      e == W.em.ent[id]
  IN IF ~found THEN [W EXCEPT !.cs = DeleteBundle(W.cs, id)]
     ELSE IF ~e.hasTransform \/ ~e.hasHealth THEN W
     ELSE
       LET base == BaseMoveSpeed(state, e)
           A == EffectLoop([w |-> W, effects |-> state.effects,
                            mult |-> 10, stunned |-> FALSE], id, 1, dt)
           alive == SelectSeq(A.effects, LAMBDA f : f.remaining > 0)
           speed == IF Len(alive) = 0 THEN base
                    ELSE LiveSpeed(base, A.stunned, A.mult)
           W1 == [A.w EXCEPT !.em.ent[id].speed = speed]
       IN IF Len(alive) = 0 THEN [W1 EXCEPT !.cs = DeleteBundle(W1.cs, id)]
          ELSE IF HasBundle(W1.cs, id)
               THEN [W1 EXCEPT !.cs = PutBundle(W1.cs,
                        [id |-> id, base |-> base, effects |-> alive])]
               ELSE W1

\* CombatSystem.updateStatuses: the bundles in the Map's order.
RECURSIVE StatusLoop(_, _, _)
StatusLoop(W, ids, dt) ==
  IF Len(ids) = 0 THEN W
  ELSE StatusLoop(StatusStep(W, Head(ids), dt), Tail(ids), dt)

UpdateStatuses(W, dt) ==
  StatusLoop(W, [i \in 1..Len(W.cs.statuses) |-> W.cs.statuses[i].id], dt)

\* CombatSystem.update: health.update on every active entity of the list,
\* then updateStatuses.
CombatUpdate(W, dt) ==
  LET m == W.em
      ent1 == [i \in 1..Len(m.ent) |->
                 IF i \in Range(m.entities) /\ m.ent[i].active /\ m.ent[i].hasHealth
                 THEN HealthUpdate(m.ent[i], dt) ELSE m.ent[i]]
  IN UpdateStatuses([W EXCEPT !.em.ent = ent1], dt)

-----------------------------------------------------------------------------
(* SpawnController (src/entities/SpawnController.ts)                       *)
(*                                                                         *)
(* The controller is built with options.registry = Registry, no tile map,  *)
(* spawnMode "world", allowSizeVariance false, and a world one tile high,  *)
(* so that every spawn position has y = 0.                                 *)

\* Bounds: the health of the smallest enemy type, the player's health and
\* invulnerability frames (HealthComponent(100, 12) in the game), and the
\* number of entities ever created (ids are never reused).
EnemyHealth == 2
PlayerHealth == 3
PlayerInvulnFrames == 2
MaxEntities == 3

TileSize == 10

\* options.registry: two of the types of DEFAULT_REGISTRY, with its sizes and
\* speeds (speed in hundredths) and scaled-down health and weights.
Registry ==
  << [type |-> "SmallChaser", baseSize10 |-> 10, spawnWeight |-> 2,
      health |-> EnemyHealth, damage |-> 1, speed |-> 150],
     [type |-> "Tank", baseSize10 |-> 22, spawnWeight |-> 1,
      health |-> EnemyHealth + 1, damage |-> 2, speed |-> 50] >>

RegisteredTypes == {Registry[i].type : i \in 1..Len(Registry)}
TypeConfig(type) ==
  Registry[CHOOSE i \in 1..Len(Registry) : Registry[i].type = type]

\* rebuildWeights
WeightTotal ==
  LET RECURSIVE Sum(_)
      Sum(i) == IF i = 0 THEN 0 ELSE Sum(i - 1) + Max(0, Registry[i].spawnWeight)
  IN Sum(Len(Registry))

\* Math.random() is r / RandomSteps for a drawn r, the smallest or the largest
\* of 0..RandomSteps-1; a loop that draws several numbers takes them in turn
\* from a drawn sequence rnd.
Randoms == [1..RandomLen -> {0, RandomSteps - 1}]
Rnd(rnd, k) == rnd[((k - 1) % Len(rnd)) + 1]

\* pickEnemyType with useWeightedSpawns: the first entry whose cumulative
\* weight reaches roll = Math.random() * weightTotal.
RECURSIVE PickFrom(_, _, _)
PickFrom(i, cumulative, r) ==
  IF i > Len(Registry) THEN Registry[Len(Registry)]
  ELSE LET c == cumulative + Max(0, Registry[i].spawnWeight) IN
       IF r * WeightTotal <= c * RandomSteps THEN Registry[i]
       ELSE PickFrom(i + 1, c, r)
PickEnemyType(r) == PickFrom(1, 0, r)

\* pickRandomWorldPosition without a tile map: x in [0, worldWidth - tileSize).
SpawnXs(c) ==
  {x \in 0..Max(0, c.worldWidth - TileSize - 1) : x % TileSize = 0}

\* ENEMY_BEHAVIORS of the two types: ranges in pixels, timers in frames,
\* moveSpeed in hundredths.
Behaviors ==
  [SmallChaser |-> [behavior |-> "slime", aggressionRadius |-> 220,
                    attackRange |-> 10, attackCooldown |-> 35,
                    attackLockDuration |-> 12, moveSpeed |-> 70],
   Tank |-> [behavior |-> "brute", aggressionRadius |-> 240,
             attackRange |-> 16, attackCooldown |-> 80,
             attackLockDuration |-> 16, moveSpeed |-> 30]]

\* createAIConfig for a type that ENEMY_BEHAVIORS lists: both types give
\* attackRange and moveSpeed and neither gives an ideal range, so
\* idealRangeMin and idealRangeMax are the attack range.
CreateAIConfig(typeCfg) ==
  LET base == Behaviors[typeCfg.type] IN
  [behavior |-> base.behavior, aggressionRadius |-> base.aggressionRadius,
   attackRange |-> base.attackRange,
   idealRangeMin |-> base.attackRange, idealRangeMax |-> base.attackRange,
   attackCooldown |-> base.attackCooldown,
   attackLockDuration |-> base.attackLockDuration,
   moveSpeed |-> base.moveSpeed]

\* spawnOne: the entity with its components (allowSizeVariance false).
\* The radius of the collision component, pixelSize * 0.4, is in tenths.
SpawnOne(m, typeCfg, x) ==
  LET pixelSize == Max(1, (typeCfg.baseSize10 * TileSize) \div 10)
      aiConfig == CreateAIConfig(typeCfg)
      e0 == [NewEntity(0, "enemy") EXCEPT !.enemyType = typeCfg.type]
      e1 == WithTransform(e0, x, pixelSize, typeCfg.speed)
      e2 == WithHealth(e1, typeCfg.health, 0)
      e3 == WithCollision(e2, pixelSize * 4)
      e4 == WithAttack(e3, typeCfg.damage, aiConfig.attackCooldown,
                       aiConfig.attackRange)
  IN CreateEntity(m, WithAI(e4, aiConfig))

\* The capacity left: Math.max(0, maxEnemies - currentEnemies), or count
\* when maxEnemies <= 0.
SpaceAvailableMut(c, m, count) ==
  IF c.maxEnemies > 0 THEN Max(0, c.maxEnemies + 1 - Len(m.enemies)) ELSE count
SpaceAvailable(c, m, count) ==
  IF c.maxEnemies > 0 THEN Max(0, c.maxEnemies - Len(m.enemies)) ELSE count

ToSpawn(c, m, count) ==
  IF c.maxEnemies > 0 THEN Min(count, SpaceAvailable(c, m, count)) ELSE count

\* The loop of spawnEnemyType / spawnBatch: picks[i] is the type config of
\* the i-th spawnOne, x the position that pickSpawnPosition gives.
RECURSIVE SpawnLoop(_, _, _, _)
SpawnLoop(m, n, picks, x) ==
  IF n <= 0 THEN m
  ELSE SpawnLoop(SpawnOne(m, picks[1], x), n - 1, Tail(picks), x)

\* SpawnController.spawnEnemyType: [em, sc, n |-> the number returned]
SpawnEnemyType(c, m, type, count, x) ==
  IF type \notin RegisteredTypes THEN [em |-> m, sc |-> c, n |-> 0]
  ELSE LET toSpawn == ToSpawn(c, m, count) IN
       IF toSpawn <= 0 THEN [em |-> m, sc |-> c, n |-> 0]
       ELSE [em |-> SpawnLoop(m, toSpawn, [i \in 1..toSpawn |-> TypeConfig(type)], x),
             sc |-> [c EXCEPT !.spawnCount = @ + toSpawn],
             n |-> toSpawn]

\* SpawnController.spawnBatch (the registry is not empty, so spawnOne never
\* returns null).
SpawnBatch(c, m, count, rnd, x) ==
  IF count <= 0 THEN [em |-> m, sc |-> c, n |-> 0]
  ELSE LET toSpawn == ToSpawn(c, m, count) IN
       IF toSpawn <= 0 THEN [em |-> m, sc |-> c, n |-> 0]
       ELSE [em |-> SpawnLoop(m, toSpawn,
                      [i \in 1..toSpawn |-> PickEnemyType(Rnd(rnd, i))], x),
             sc |-> [c EXCEPT !.spawnCount = @ + toSpawn],
             n |-> toSpawn]

\* The controller after construction.
NewSpawnController(maxEnemies, worldWidth) ==
  [maxEnemies |-> maxEnemies, worldWidth |-> worldWidth,
   spawnCount |-> 0]   \* the sum of the entries of spawnCounts

-----------------------------------------------------------------------------
(* WaveManager (src/entities/waves/WaveTypes.ts)                           *)
(*                                                                         *)
(* Times are in ticks.  The budget is kept in units of 1 / TicksPerSecond  *)
(* of an enemy cost, so that budgetPerSecond * dtSeconds is the integer    *)
(* budgetPerSecond * dt.  A cost table is a function whose domain is the   *)
(* set of types that have a cost; a mix is a sequence of [type, weight]    *)
(* in the insertion order of the object.                                   *)

Infinity == 1000000   \* Number.POSITIVE_INFINITY
MaxAttempts == 64     \* the guard of the loop of processContinuousSpawns

WaveDefinition(duration, bps, costs, mix, events) ==
  [durationSeconds |-> duration, budgetPerSecond |-> bps, enemyCosts |-> costs,
   continuousSpawnMix |-> mix, timedEvents |-> events]

BurstSpawn(triggerTime, groups) ==
  [triggerTime |-> triggerTime, eventType |-> "BurstSpawn", enemies |-> groups,
   eliteType |-> "", eliteCount |-> 1, totalCount |-> 0, weights |-> <<>>]
EliteSpawn(triggerTime, type, count) ==
  [triggerTime |-> triggerTime, eventType |-> "EliteSpawn", enemies |-> <<>>,
   eliteType |-> type, eliteCount |-> count, totalCount |-> 0, weights |-> <<>>]
WeightedBurst(triggerTime, total, weights) ==
  [triggerTime |-> triggerTime, eventType |-> "WeightedBurst", enemies |-> <<>>,
   eliteType |-> "", eliteCount |-> 1, totalCount |-> total, weights |-> weights]

\* The manager after construction.  spawned, fired, ran and completed are
\* history: the enemies that processContinuousSpawns created in this run of
\* the wave, the number of executeEvent calls per event of this run, whether
\* update has stepped this run, and the number of onWaveComplete calls.
NewWaveManager(options) ==
  [options |-> options, active |-> FALSE, waveIndex |-> 0, elapsed |-> 0,
   budget |-> 0, triggeredEvents |-> {}, costs |-> <<>>,
   intermissionTimer |-> 0, endlessMode |-> FALSE,
   spawned |-> 0, fired |-> <<>>, ran |-> FALSE, completed |-> 0]

\* The state the wave operations work on.
Stage(m, c, w) == [em |-> m, sc |-> c, wm |-> w]

Waves(w) == w.options.waves
CurrentWave(w) == Waves(w)[w.waveIndex + 1]

\* { ...this.baseEnemyCosts, ...wave.enemyCosts }
MergeCosts(base, own) ==
  [t \in (DOMAIN base) \cup (DOMAIN own) |->
     IF t \in DOMAIN own THEN own[t] ELSE base[t]]

RECURSIVE RemoveAll(_, _)
RemoveAll(m, ids) ==
  IF ids = <<>> THEN m ELSE RemoveAll(RemoveEntity(m, Head(ids)), Tail(ids))

\* beginWave
BeginWave(V, index) ==
  LET w == V.wm
      waveIndex == Max(0, Min(index, Len(Waves(w)) - 1))
      wave == Waves(w)[waveIndex + 1] IN
  [V EXCEPT
     !.wm = [w EXCEPT
        !.active = TRUE, !.waveIndex = waveIndex, !.elapsed = 0, !.budget = 0,
        !.triggeredEvents = {},
        !.costs = MergeCosts(w.options.baseEnemyCosts, wave.enemyCosts),
        !.intermissionTimer = 0,
        !.endlessMode = (waveIndex >= Len(Waves(w)) - 1) /\ w.options.loopLastWave,
        !.spawned = 0, !.fired = [i \in 1..Len(wave.timedEvents) |-> 0],
        !.ran = FALSE],
     !.em = IF w.options.clearEnemiesOnWaveStart
            THEN RemoveAll(V.em, V.em.enemies) ELSE V.em]

\* beginNextWave
BeginNextWave(V) ==
  IF ~V.wm.active THEN V
  ELSE LET nextIndex == V.wm.waveIndex + 1 IN
       IF nextIndex >= Len(Waves(V.wm))
       THEN IF ~V.wm.options.loopLastWave THEN V
            ELSE [BeginWave(V, Len(Waves(V.wm)) - 1) EXCEPT !.wm.endlessMode = TRUE]
       ELSE BeginWave(V, nextIndex)

\* finishWave
FinishWave(V, skipping) ==
  LET w == [V.wm EXCEPT !.completed = @ + 1]
      isFinalWave == (w.waveIndex >= Len(Waves(w)) - 1) /\ ~w.options.loopLastWave IN
  IF isFinalWave
  THEN [V EXCEPT !.wm = [w EXCEPT !.active = FALSE, !.intermissionTimer = 0,
                                  !.endlessMode = FALSE]]
  ELSE IF skipping /\ w.options.intermissionSeconds <= 0
  THEN BeginNextWave([V EXCEPT !.wm = w])
  ELSE [V EXCEPT !.wm = [w EXCEPT !.intermissionTimer = w.options.intermissionSeconds]]

\* pickFromMix: the first entry of positive weight whose cumulative weight
\* reaches roll = Math.random() * total; "" stands for null.
PickFromMix(mix, r) ==
  LET entries == SelectSeq(mix, LAMBDA en : en.weight > 0)
      RECURSIVE Sum(_)
      Sum(i) == IF i = 0 THEN 0 ELSE Sum(i - 1) + entries[i].weight
      total == Sum(Len(entries))
      RECURSIVE Pick(_)
      Pick(i) == IF i > Len(entries) THEN entries[Len(entries)].type
                 ELSE IF r * total <= Sum(i) * RandomSteps THEN entries[i].type
                 ELSE Pick(i + 1)
  IN IF Len(entries) = 0 THEN "" ELSE Pick(1)

\* getCheapestEnemyCost
GetCheapestEnemyCostMut(costs) == 1
GetCheapestEnemyCost(costs) ==
  LET positive == {costs[t] : t \in {u \in DOMAIN costs : costs[u] > 0}} IN
  IF positive = {} THEN Infinity
  ELSE CHOOSE v \in positive : \A u \in positive : v <= u

\* ctx.budget -= cost
SpendMut(budget, cost) == budget - (cost + 1) * TicksPerSecond
Spend(budget, cost) == budget - cost * TicksPerSecond

\* while (ctx.budget >= cheapest && attempts < 64)
GoesOnMut(budget, cheapest, attempts) ==
  budget >= cheapest * TicksPerSecond /\ attempts <= MaxAttempts
GoesOn(budget, cheapest, attempts) ==
  budget >= cheapest * TicksPerSecond /\ attempts < MaxAttempts

\* One pass of the loop of processContinuousSpawns on r = [v |-> the state,
\* attempts, k |-> the number of the pass, done |-> the loop has ended]; a
\* pass after the end changes nothing.
SpawnPass(r, cheapest, rnd, x) ==
  IF r.done THEN r
  ELSE IF ~GoesOn(r.v.wm.budget, cheapest, r.attempts) THEN [r EXCEPT !.done = TRUE]
  ELSE LET enemyType == PickFromMix(CurrentWave(r.v.wm).continuousSpawnMix,
                                    Rnd(rnd, r.k)) IN
       IF enemyType = "" THEN [r EXCEPT !.done = TRUE]
       ELSE IF enemyType \notin DOMAIN r.v.wm.costs
       THEN [r EXCEPT !.attempts = @ + 1, !.k = @ + 1]
       ELSE LET s == SpawnEnemyType(r.v.sc, r.v.em, enemyType, 1, x) IN
            IF s.n > 0
            THEN [r EXCEPT !.v.em = s.em, !.v.sc = s.sc,
                           !.v.wm.budget = Spend(@, r.v.wm.costs[enemyType]),
                           !.v.wm.spawned = @ + s.n,
                           !.attempts = @ + 1, !.k = @ + 1]
            ELSE [r EXCEPT !.done = TRUE]

\* Eight passes in a row.
SpawnPasses(r, cheapest, rnd, x) ==
  SpawnPass(SpawnPass(SpawnPass(SpawnPass(SpawnPass(SpawnPass(SpawnPass(SpawnPass(
    r, cheapest, rnd, x), cheapest, rnd, x), cheapest, rnd, x), cheapest, rnd, x),
    cheapest, rnd, x), cheapest, rnd, x), cheapest, rnd, x), cheapest, rnd, x)

\* The loop of processContinuousSpawns, taken eight passes at a time.
RECURSIVE SpawnWhileAffordable(_, _, _, _)
SpawnWhileAffordable(r, cheapest, rnd, x) ==
  IF r.done THEN r.v
  ELSE SpawnWhileAffordable(SpawnPasses(r, cheapest, rnd, x), cheapest, rnd, x)

\* processContinuousSpawns
ProcessContinuousSpawns(V, rnd, x) ==
  LET cheapest == GetCheapestEnemyCost(V.wm.costs) IN
  IF cheapest <= 0 THEN V
  ELSE SpawnWhileAffordable([v |-> V, attempts |-> 0, k |-> 1, done |-> FALSE],
                            cheapest, rnd, x)

\* spawnGroups
RECURSIVE SpawnGroups(_, _, _)
SpawnGroups(V, groups, x) ==
  IF groups = <<>> THEN V
  ELSE LET group == Head(groups) IN
       IF group.type = "" \/ group.count <= 0 THEN SpawnGroups(V, Tail(groups), x)
       ELSE LET s == SpawnEnemyType(V.sc, V.em, group.type, group.count, x) IN
            SpawnGroups([V EXCEPT !.em = s.em, !.sc = s.sc], Tail(groups), x)

\* The loop of the WeightedBurst case, from i on.
RECURSIVE WeightedLoop(_, _, _, _, _)
WeightedLoop(V, evt, i, rnd, x) ==
  IF i >= evt.totalCount THEN V
  ELSE LET type == PickFromMix(evt.weights, Rnd(rnd, i + 1)) IN
       IF type = "" THEN V
       ELSE LET s == SpawnEnemyType(V.sc, V.em, type, 1, x) IN
            WeightedLoop([V EXCEPT !.em = s.em, !.sc = s.sc], evt, i + 1, rnd, x)

\* executeEvent
ExecuteEvent(V, evt, rnd, x) ==
  CASE evt.eventType \in {"BurstSpawn", "MixedGroup"} ->
         SpawnGroups(V, evt.enemies, x)
    [] evt.eventType = "EliteSpawn" ->
         IF evt.eliteType # ""
         THEN SpawnGroups(V, <<[type |-> evt.eliteType, count |-> evt.eliteCount]>>, x)
         ELSE V
    [] evt.eventType = "WeightedBurst" -> WeightedLoop(V, evt, 0, rnd, x)
    [] OTHER -> V

\* ctx.triggeredEvents.has(evt); an event is named by its place in timedEvents
AlreadyTriggeredMut(w, i) == FALSE
AlreadyTriggered(w, i) == i \in w.triggeredEvents

\* The loop of processEvents, from the i-th event on.
RECURSIVE EventLoop(_, _, _, _)
EventLoop(V, i, rnd, x) ==
  LET events == CurrentWave(V.wm).timedEvents IN
  IF i > Len(events) THEN V
  ELSE IF AlreadyTriggered(V.wm, i) \/ V.wm.elapsed < events[i].triggerTime
  THEN EventLoop(V, i + 1, rnd, x)
  ELSE LET V1 == ExecuteEvent(V, events[i], rnd, x) IN
       EventLoop([V1 EXCEPT !.wm.triggeredEvents = @ \cup {i},
                            !.wm.fired[i] = @ + 1],
                 i + 1, rnd, x)

\* processEvents
ProcessEvents(V, rnd, x) == EventLoop(V, 1, rnd, x)

\* WaveManager.update
WaveUpdate(V, dt, rnd, x) ==
  IF ~V.wm.active THEN V
  ELSE IF V.wm.intermissionTimer > 0
  THEN LET V1 == [V EXCEPT !.wm.intermissionTimer = @ - dt] IN
       IF V1.wm.intermissionTimer <= 0 THEN BeginNextWave(V1) ELSE V1
  ELSE LET V1 == [V EXCEPT !.wm.elapsed = @ + dt,
                           !.wm.budget = @ + CurrentWave(V.wm).budgetPerSecond * dt,
                           !.wm.ran = TRUE]
           V2 == ProcessContinuousSpawns(ProcessEvents(V1, rnd, x), rnd, x) IN
       IF V2.wm.elapsed >= CurrentWave(V2.wm).durationSeconds
       THEN FinishWave(V2, FALSE) ELSE V2

\* WaveManager.start
WaveStart(V) == BeginWave(V, 0)

\* WaveManager.skipToNextWave
SkipToNextWaveMut(V) == IF ~V.wm.active THEN V ELSE FinishWave(V, FALSE)
SkipToNextWave(V) == IF ~V.wm.active THEN V ELSE FinishWave(V, TRUE)

-----------------------------------------------------------------------------
(* TileMap (part_009)                                                      *)
(*                                                                         *)
(* A tile map is [built, width, height, virtualPixelScale, tiles], tiles   *)
(* the per-tile state in the order of the typed arrays (index y * width +  *)
(* x, counted from 1 here): base and flags of the mask word, hp (Int16)    *)
(* and durability (Uint8).  The overlays, the state flags, usage, the      *)
(* occupants and the dirty list are left out.  Coordinates and amounts are *)
(* integers.                                                               *)

Floor == 3   \* BaseType.Floor
Wall == 4    \* BaseType.Wall

FlagWalkable == 1   \* FlagBits.Walkable
FlagBlocked == 2    \* FlagBits.Blocked
FlagLosBlock == 4   \* FlagBits.LosBlock

Int16Min == -32768
Int16Max == 32767
IndestructibleDurability == 200

\* flags & bit # 0, for a bit that is a power of two
HasFlag(flags, bit) == (flags \div bit) % 2 = 1

\* what a store into an Int16Array and into a Uint8Array keeps of an integer
ToInt16(v) == ((v - Int16Min) % (2 * (Int16Max + 1))) + Int16Min
ToUint8(v) == v % 256

\* No tile map is set.
NoTileMap == [built |-> FALSE]

\* A tile of the zeroed typed arrays.
BlankTile == [base |-> 0, flags |-> 0, hp |-> 0, durability |-> 0]

\* new TileMap(widthTiles, heightTiles, virtualPixelScale)
NewTileMap(widthTiles, heightTiles, virtualPixelScale) ==
  [built |-> TRUE, width |-> widthTiles, height |-> heightTiles,
   virtualPixelScale |-> virtualPixelScale,
   tiles |-> [i \in 1..(widthTiles * heightTiles) |-> BlankTile]]

\* inBounds, index
InBounds(t, x, y) == x >= 0 /\ y >= 0 /\ x < t.width /\ y < t.height
Index(t, x, y) == y * t.width + x + 1

\* defaultFlagsForBase
DefaultFlagsForBaseMut(base) ==
  IF base = Wall THEN FlagBlocked + FlagLosBlock ELSE 0
DefaultFlagsForBase(base) ==
  IF base = Wall THEN FlagBlocked + FlagLosBlock ELSE IF base = 5 THEN 0 ELSE FlagWalkable

\* getTile (the tile is in bounds)
GetTile(t, x, y) == t.tiles[Index(t, x, y)]

\* isWalkable, isBlocked
IsWalkable(t, x, y) ==
  IF ~InBounds(t, x, y) THEN FALSE ELSE HasFlag(GetTile(t, x, y).flags, FlagWalkable)
IsBlocked(t, x, y) ==
  IF ~InBounds(t, x, y) THEN TRUE ELSE HasFlag(GetTile(t, x, y).flags, FlagBlocked)

\* setTile; encode keeps 8 bits of the base and 8 bits of the flags in the
\* mask word, decodeBase and decodeFlags read them back.
SetTile(t, x, y, base) ==
  IF ~InBounds(t, x, y) THEN t
  ELSE [t EXCEPT !.tiles[Index(t, x, y)].base = ToUint8(base),
                 !.tiles[Index(t, x, y)].flags = ToUint8(DefaultFlagsForBase(base))]

\* setWallTile
SetWallTile(t, x, y, hitPoints, indestructible) ==
  IF ~InBounds(t, x, y) THEN t
  ELSE [t EXCEPT !.tiles[Index(t, x, y)] =
          [base |-> Wall, flags |-> FlagBlocked + FlagLosBlock,
           hp |-> IF indestructible THEN Int16Max ELSE ToInt16(hitPoints),
           durability |-> IF indestructible THEN 255 ELSE ToUint8(hitPoints)]]

\* setBlocked: sets or clears the Blocked bit and leaves the other flags
SetBlocked(t, x, y, blocked) ==
  IF ~InBounds(t, x, y) THEN t
  ELSE LET f == GetTile(t, x, y).flags IN
       [t EXCEPT !.tiles[Index(t, x, y)].flags =
          IF blocked = HasFlag(f, FlagBlocked) THEN f
          ELSE IF blocked THEN f + FlagBlocked ELSE f - FlagBlocked]

\* if (this.durability[idx] >= 200) return false
TreatedAsIndestructibleMut(tile) == tile.durability > IndestructibleDurability
TreatedAsIndestructible(tile) == tile.durability >= IndestructibleDurability

\* damageWallTile: [tm, destroyed |-> the value returned]
DamageWallTile(t, x, y, amount) ==
  IF ~InBounds(t, x, y) THEN [tm |-> t, destroyed |-> FALSE]
  ELSE LET idx == Index(t, x, y)
           tile == t.tiles[idx] IN
       IF tile.base # Wall THEN [tm |-> t, destroyed |-> FALSE]
       ELSE IF TreatedAsIndestructible(tile) THEN [tm |-> t, destroyed |-> FALSE]
       ELSE LET hp == ToInt16(Max(Int16Min, Min(Int16Max, tile.hp - amount)))
                t1 == [t EXCEPT !.tiles[idx].hp = hp] IN
            IF hp <= 0
            THEN [tm |-> [SetTile(t1, x, y, Floor) EXCEPT
                            !.tiles[idx].hp = 0, !.tiles[idx].durability = 0],
                  destroyed |-> TRUE]
            ELSE [tm |-> t1, destroyed |-> FALSE]

-----------------------------------------------------------------------------
(* ProceduralMapGenerator (part_009)                                       *)
(*                                                                         *)
(* The 32-bit state of SeededRng is kept as two 16-bit halves [hi, lo].    *)
(* Ratios and obstacleDensity are in hundredths.  The configurations have  *)
(* blobEdgeJitter = 0 (the threshold of paintBlob is then 1 whatever       *)
(* number is drawn, though one is drawn per tile) and carveLoopCount = 0   *)
(* (carveLoops draws nothing and carves nothing); obstacleBounds and the   *)
(* tile lists of extractMetadata, which do not write to the map, are left  *)
(* out.  rng.int is the exact floor of state * n / 0xffffffff.             *)

Half == 65536              \* 2^16
AttemptStep == 1013904223  \* seed = (attemptSeed + attempt * 1013904223) >>> 0
BorderHitPoints == 999     \* setWallTile(x, y, 999, true)
BlobHitPoints == 3         \* setWallTile(x, y, 3, false)

\* a 32-bit word from a number below 2^31
Word(n) == [hi |-> n \div Half, lo |-> n % Half]

\* a ^ b on 16 bits
RECURSIVE Xor16(_, _)
Xor16(a, b) ==
  IF a = 0 THEN b ELSE IF b = 0 THEN a
  ELSE ((a + b) % 2) + 2 * Xor16(a \div 2, b \div 2)

Xor32(a, b) == [hi |-> Xor16(a.hi, b.hi), lo |-> Xor16(a.lo, b.lo)]

\* x << k and x >>> k on 32 bits, for 0 < k < 16 and for k = 17
Shl(x, k) ==
  LET p == 2 ^ k
      q == 2 ^ (16 - k) IN
  [hi |-> (x.hi % q) * p + x.lo \div q, lo |-> (x.lo % q) * p]
Shr17(x) == [hi |-> 0, lo |-> x.hi \div 2]

\* (a + b) >>> 0
Add32(a, b) ==
  [hi |-> (a.hi + b.hi + (a.lo + b.lo) \div Half) % Half, lo |-> (a.lo + b.lo) % Half]

\* new SeededRng(seed || 1): this.state = seed >>> 0 || 1
NewRng(seed) == IF seed.hi = 0 /\ seed.lo = 0 THEN Word(1) ELSE seed

\* SeededRng.next: the state after the call (xorshift32)
RngNext(state) ==
  LET a == Xor32(state, Shl(state, 13))
      b == Xor32(a, Shr17(a))
  IN Xor32(b, Shl(b, 5))

\* The state after n calls of next.
RECURSIVE Advance(_, _)
Advance(state, n) == IF n <= 0 THEN state ELSE Advance(RngNext(state), n - 1)

\* Math.floor((state / 0xffffffff) * n) for 1 <= n: the largest k with
\* k * (2^32 - 1) <= state * n.
Scaled(state, n) ==
  LET ok(k) == (state.hi * n + (state.lo * n + k) \div Half) \div Half >= k
  IN CHOOSE k \in 0..n : ok(k) /\ (k = n \/ ~ok(k + 1))

\* SeededRng.int: [rng |-> the state after, value |-> the number returned]
RngInt(state, min, max) ==
  LET s == RngNext(state) IN
  [rng |-> s, value |-> Scaled(s, max - min + 1) + min]

\* clampInt
ClampInt(value, min, max) == Min(max, Max(min, value))

\* setTile and setWallTile on each of the cells (pairs <<x, y>>), in any
\* order
Indices(t, cells) ==
  {Index(t, c[1], c[2]) : c \in {d \in cells : InBounds(t, d[1], d[2])}}
SetTiles(t, cells, base) ==
  LET changed == Indices(t, cells) IN
  [t EXCEPT !.tiles = [i \in DOMAIN t.tiles |->
     IF i \in changed
     THEN [t.tiles[i] EXCEPT !.base = ToUint8(base),
                             !.flags = ToUint8(DefaultFlagsForBase(base))]
     ELSE t.tiles[i]]]
SetWallTiles(t, cells, hitPoints, indestructible) ==
  LET changed == Indices(t, cells) IN
  [t EXCEPT !.tiles = [i \in DOMAIN t.tiles |->
     IF i \in changed
     THEN [base |-> Wall, flags |-> FlagBlocked + FlagLosBlock,
           hp |-> IF indestructible THEN Int16Max ELSE ToInt16(hitPoints),
           durability |-> IF indestructible THEN 255 ELSE ToUint8(hitPoints)]
     ELSE t.tiles[i]]]

Cells(t) == (0..(t.width - 1)) \X (0..(t.height - 1))

\* paintBase
PaintBase(t) == SetTiles(t, Cells(t), Floor)

\* The loop over x of applyJaggedBorders, on G = [tm, rng].
RECURSIVE JagColumns(_, _, _, _, _)
JagColumns(G, c, x, top, bottom) ==
  IF x >= G.tm.width THEN G
  ELSE
    LET a == RngInt(G.rng, -c.step, c.step)
        top1 == ClampInt(top + a.value, c.minT, c.maxT)
        b == RngInt(a.rng, -c.step, c.step)
        bottom1 == ClampInt(bottom + b.value, c.minT, c.maxT)
        cells == {<<x, y>> : y \in 0..(top1 - 1)}
                 \cup {<<x, y>> : y \in (G.tm.height - bottom1)..(G.tm.height - 1)}
    IN JagColumns([tm |-> SetWallTiles(G.tm, cells, BorderHitPoints, TRUE), rng |-> b.rng],
                  c, x + 1, top1, bottom1)

\* The loop over y of applyJaggedBorders.
RECURSIVE JagRows(_, _, _, _, _)
JagRows(G, c, y, left, right) ==
  IF y >= G.tm.height THEN G
  ELSE
    LET a == RngInt(G.rng, -c.step, c.step)
        left1 == ClampInt(left + a.value, c.minT, c.maxT)
        b == RngInt(a.rng, -c.step, c.step)
        right1 == ClampInt(right + b.value, c.minT, c.maxT)
        cells == {<<x, y>> : x \in 0..(left1 - 1)}
                 \cup {<<x, y>> : x \in (G.tm.width - right1)..(G.tm.width - 1)}
    IN JagRows([tm |-> SetWallTiles(G.tm, cells, BorderHitPoints, TRUE), rng |-> b.rng],
               c, y + 1, left1, right1)

\* applyJaggedBorders
ApplyJaggedBorders(G, config) ==
  LET minT == Max(1, config.edgeJaggedThicknessMin)
      maxT == Max(minT, config.edgeJaggedThicknessMax)
      c == [minT |-> minT, maxT |-> maxT, step |-> Max(1, config.edgeJaggedStep)]
      top == RngInt(G.rng, minT, maxT)
      bottom == RngInt(top.rng, minT, maxT)
      G1 == JagColumns([G EXCEPT !.rng = bottom.rng], c, 0, top.value, bottom.value)
      left == RngInt(G1.rng, minT, maxT)
      right == RngInt(left.rng, minT, maxT)
  IN JagRows([G1 EXCEPT !.rng = right.rng], c, 0, left.value, right.value)

\* paintBlob with jitter 0: [tm, rng, painted].  A number is drawn for
\* every tile of the disk that lies in the map; with radius 0 normalized is
\* NaN and nothing is painted.
PaintBlob(G, cx, cy, radius) ==
  LET disk == {c \in Cells(G.tm) :
                 (c[1] - cx) * (c[1] - cx) + (c[2] - cy) * (c[2] - cy) <= radius * radius}
      fresh == {c \in disk : radius > 0 /\ GetTile(G.tm, c[1], c[2]).base # Wall}
  IN [tm |-> SetWallTiles(G.tm, fresh, BlobHitPoints, FALSE),
      rng |-> Advance(G.rng, Cardinality(disk)),
      painted |-> Cardinality(fresh)]

\* The condition of the loop of scatterBlobs: blobs are still to be drawn,
\* or fewer tiles were painted than 85% of the target.
MoreTilesWanted(t, config, painted) ==
  LET totalTiles == t.width * t.height
      targetObstacleTiles == (totalTiles * config.obstacleDensity) \div 100 IN
  painted * 100 < targetObstacleTiles * 85

BlobsWanted(t, config, i, painted, blobTargetCount) ==
  i < blobTargetCount \/ MoreTilesWanted(t, config, painted)

\* The least and the largest centre coordinate of a blob of a radius on a
\* side of n tiles.
CentreMin(radius) == radius + 2
CentreMax(radius, n) == Max(radius + 2, n - radius - 2)

\* One round of the loop of scatterBlobs: [tm, rng, painted]
BlobRound(G, config) ==
  LET radius == RngInt(G.rng, config.blobRadiusMin, config.blobRadiusMax)
      cx == RngInt(radius.rng, CentreMin(radius.value),
                   CentreMax(radius.value, G.tm.width))
      cy == RngInt(cx.rng, CentreMin(radius.value),
                   CentreMax(radius.value, G.tm.height))
  IN PaintBlob([G EXCEPT !.rng = cy.rng], cx.value, cy.value, radius.value)

\* The loop of scatterBlobs from its i-th round on.
RECURSIVE BlobLoop(_, _, _, _, _)
BlobLoop(G, config, i, painted, blobTargetCount) ==
  IF ~BlobsWanted(G.tm, config, i, painted, blobTargetCount) THEN G
  ELSE
    LET blob == BlobRound(G, config)
    IN BlobLoop([tm |-> blob.tm, rng |-> blob.rng], config, i + 1,
                painted + blob.painted, blobTargetCount)

\* scatterBlobs
ScatterBlobs(G, config) ==
  LET blobTargetCount == RngInt(G.rng, config.blobCountMin, config.blobCountMax)
  IN BlobLoop([G EXCEPT !.rng = blobTargetCount.rng], config, 0, 0, blobTargetCount.value)

\* clearSafeZone
ClearSafeZone(t, config) ==
  LET r == config.safeZoneRadius
      zone == {c \in Cells(t) :
                 (c[1] - config.spawn.x) * (c[1] - config.spawn.x)
                 + (c[2] - config.spawn.y) * (c[2] - config.spawn.y) <= r * r}
  IN SetTiles(t, zone, Floor)

\* carveLoops, for carveLoopCount = 0
CarveLoops(G, config) == G

\* reinforceOuterWall
ReinforceOuterWall(t) ==
  LET ring == {c \in Cells(t) : c[1] = 0 \/ c[2] = 0
                                \/ c[1] = t.width - 1 \/ c[2] = t.height - 1}
  IN SetWallTiles(t, ring, BorderHitPoints, TRUE)

\* countWalkable
CountWalkable(t) == Cardinality({c \in Cells(t) : IsWalkable(t, c[1], c[2])})

\* The loop of countReachable: the queue, the tiles marked visited and the
\* count so far.
RECURSIVE ReachLoop(_, _, _, _)
ReachLoop(t, queue, visited, count) ==
  IF queue = <<>> THEN count
  ELSE
    LET current == Head(queue)
        neighbors == << <<current[1] + 1, current[2]>>, <<current[1] - 1, current[2]>>,
                        <<current[1], current[2] + 1>>, <<current[1], current[2] - 1>> >>
        RECURSIVE Visit(_, _, _)
        Visit(k, q, v) ==
          IF k > Len(neighbors) THEN [queue |-> q, visited |-> v]
          ELSE LET n == neighbors[k] IN
               IF ~InBounds(t, n[1], n[2]) THEN Visit(k + 1, q, v)
               ELSE IF n \in v THEN Visit(k + 1, q, v)
               ELSE IF ~IsWalkable(t, n[1], n[2]) THEN Visit(k + 1, q, v)
               ELSE Visit(k + 1, Append(q, n), v \cup {n})
        next == Visit(1, Tail(queue), visited)
    IN ReachLoop(t, next.queue, next.visited, count + 1)

\* countReachable
CountReachableMut(t, spawn) ==
  IF ~IsWalkable(t, spawn.x, spawn.y) THEN 0 ELSE CountWalkable(t)
CountReachable(t, spawn) ==
  IF ~IsWalkable(t, spawn.x, spawn.y) THEN 0
  ELSE ReachLoop(t, << <<spawn.x, spawn.y>> >>, {<<spawn.x, spawn.y>>}, 0)

\* The result of generate on the map t as the steps left it: the counts
\* taken on it.
Counted(t, config, seed, fallback) ==
  [tm |-> t, seed |-> seed, fallback |-> fallback,
   reachable |-> CountReachable(t, config.spawn),
   walkable |-> CountWalkable(t)]

\* clearSafeZone on the map of G
Cleared(G, config) == [G EXCEPT !.tm = ClearSafeZone(G.tm, config)]

\* One round of the loop of generate: the map after the six steps and the
\* counts taken on it.
Attempt(t, config, seed) ==
  Counted(
    ReinforceOuterWall(
      CarveLoops(
        Cleared(
          ScatterBlobs(
            ApplyJaggedBorders([tm |-> PaintBase(t), rng |-> NewRng(seed)], config),
            config),
          config),
        config).tm),
    config, seed, FALSE)

\* The steps after the loop of generate.
Fallback(t, config, seed) ==
  Counted(
    CarveLoops(
      Cleared(ScatterBlobs([tm |-> PaintBase(t), rng |-> NewRng(seed)], config), config),
      config).tm,
    config, seed, TRUE)

\* reachableRatio >= config.requiredConnectedRatio, the ratio being 0 on a
\* map without tiles
Accepted(a, config) ==
  LET totalTiles == a.tm.width * a.tm.height IN
  IF totalTiles > 0 THEN a.reachable * 100 >= config.requiredConnectedRatio * totalTiles
  ELSE 0 >= config.requiredConnectedRatio

\* The loop of generate from round attempt on, on the map t that the
\* round before left (the map given, at first), seed being the seed of the
\* round: [out |-> the result, tried |-> the map the last round left,
\* attempts |-> the number of rounds].
RECURSIVE AttemptLoop(_, _, _, _, _)
AfterAttempt(a, config, attempt, seed, attemptSeed) ==
  IF Accepted(a, config) THEN [out |-> a, tried |-> a.tm, attempts |-> attempt + 1]
  ELSE AttemptLoop(a.tm, config, attempt + 1, Add32(seed, Word(AttemptStep)),
                   attemptSeed)
AttemptLoop(t, config, attempt, seed, attemptSeed) ==
  IF attempt >= config.maxAttempts
  THEN [out |-> Fallback(t, config, attemptSeed), tried |-> t, attempts |-> attempt]
  ELSE AfterAttempt(Attempt(t, config, seed), config, attempt, seed, attemptSeed)

\* ProceduralMapGenerator.generate with a seed in the configuration; out is
\* [tm, seed, fallback, reachable, walkable], the ratios being reachable
\* and walkable over width * height.
Generate(t, config) ==
  AttemptLoop(t, config, 0, Word(config.seed), Word(config.seed))

-----------------------------------------------------------------------------
(* ProjectileManager (part_007)                                            *)
(*                                                                         *)
(* Every entity stands at y = 0 and every projectile flies along the x     *)
(* axis (dirY = 0), so that a projectile keeps the y it was spawned at.    *)
(* The records of the pool and of the active list are objects: obj is the  *)
(* heap, pool and active hold references into it.  Sizes and radii of      *)
(* projectiles are in hundredths of a pixel, scales in hundredths.  The    *)
(* combat system is set; a tile map is set in SpecWalls only.              *)

Absent == -1              \* an optional field left undefined
DefaultChainRange == 72   \* projectile.chainRange = chainRange || 72

\* Bounds: the lifetime of the registered projectile types, the largest
\* pierce asked for, and the number of projectiles ever spawned.
ProjectileLifetime == 2
MaxPierce == 1
MaxProjectileIds == 3

\* options.registry: two of the types of DEFAULT_TYPES, with their speed and
\* scales, and scaled-down damage and lifetime.
ProjectileTypes ==
  << [key |-> "playerBullet", speed |-> 3, damage |-> 1,
      lifetime |-> ProjectileLifetime, sizeScale |-> 30, collisionRadiusScale |-> 45],
     [key |-> "enemySpit", speed |-> 3, damage |-> 1,
      lifetime |-> ProjectileLifetime, sizeScale |-> 34, collisionRadiusScale |-> 48] >>

ProjectileKeys == {ProjectileTypes[i].key : i \in 1..Len(ProjectileTypes)}
ProjectileType(key) ==
  ProjectileTypes[CHOOSE i \in 1..Len(ProjectileTypes) : ProjectileTypes[i].key = key]

ProjectileConfig(poolSize, maxProjectiles, pooling, reuse) ==
  [poolSize |-> poolSize, maxProjectiles |-> maxProjectiles,
   enableObjectPooling |-> pooling, reuseOldestWhenFull |-> reuse,
   enableFriendlyFire |-> FALSE, maxLifetime |-> 2 * ProjectileLifetime]

\* The record that preallocatePool and acquireProjectile build.
BlankProjectile ==
  [id |-> 0, key |-> "playerBullet", source |-> 0, x |-> 0, y |-> 0, dirX |-> 0,
   speed |-> 0, damage |-> 0, lifetime |-> 0, size |-> 0, radius |-> 0,
   pierce |-> 0, effects |-> <<>>, remainingChains |-> 0, chainRange |-> 0,
   colorOverride |-> Absent, hitIds |-> {},
   isPlayerProjectile |-> FALSE, isEnemyProjectile |-> FALSE, active |-> FALSE]

\* The manager after construction (preallocatePool).  flights is history:
\* for every projectile id given out, whether it is a player projectile,
\* the pierce and chain it was spawned with, the targets it called
\* applyDamage on, whether update released it for a hit and for a wall,
\* and for a chained projectile the id of the projectile that chained
\* (parent) and the hit ids that one held when it did (barred).
NewProjectileManager(config) ==
  [config |-> config,
   obj |-> [i \in 1..config.poolSize |-> BlankProjectile],
   pool |-> [i \in 1..config.poolSize |-> i],
   active |-> <<>>,
   nextId |-> 1,
   flights |-> <<>>]

ProjectileOptions(damage, pierce, effects, chain) ==
  [overrideSpeed |-> Absent, overrideDamage |-> damage, overrideLifetime |-> Absent,
   sizeScale |-> Absent, pierce |-> pierce, color |-> Absent, effects |-> effects,
   chain |-> chain, chainRange |-> Absent]

\* a ?? b
OrMut(a, b) == b
Or(a, b) == IF a = Absent THEN b ELSE a

\* acquireProjectile: [pm, ref |-> the record returned, 0 for null]
AcquireProjectile(p) ==
  IF Len(p.pool) > 0
  THEN LET r == p.pool[Len(p.pool)] IN
       [pm |-> [p EXCEPT !.pool = SubSeq(@, 1, Len(@) - 1),
                         !.obj[r].hitIds = {}, !.obj[r].effects = <<>>,
                         !.obj[r].remainingChains = 0, !.obj[r].chainRange = 0,
                         !.obj[r].colorOverride = Absent],
        ref |-> r]
  ELSE IF ~p.config.enableObjectPooling
  THEN [pm |-> [p EXCEPT !.obj = Append(@, BlankProjectile)], ref |-> Len(p.obj) + 1]
  ELSE IF Len(p.active) >= p.config.maxProjectiles
  THEN IF ~p.config.reuseOldestWhenFull THEN [pm |-> p, ref |-> 0]
       ELSE IF Len(p.active) > 0
       THEN LET oldest == Head(p.active) IN
            [pm |-> [p EXCEPT !.active = Tail(@), !.obj[oldest].active = FALSE],
             ref |-> oldest]
       ELSE [pm |-> p, ref |-> 0]
  ELSE [pm |-> [p EXCEPT !.obj = Append(@, BlankProjectile)], ref |-> Len(p.obj) + 1]

\* normalize, along the x axis
NormalizeMut(x) == IF x >= 0 THEN 1 ELSE -1
Normalize(x) == IF x = 0 THEN 0 ELSE IF x > 0 THEN 1 ELSE -1

\* ProjectileManager.spawn: [pm, ref |-> the record returned, 0 for null];
\* source is an entity id of the store m, 0 for null.
Spawn(p, m, key, position, dirX, source, flags, options) ==
  IF key \notin ProjectileKeys THEN [pm |-> p, ref |-> 0]
  ELSE IF Normalize(dirX) = 0 THEN [pm |-> p, ref |-> 0]
  ELSE LET a == AcquireProjectile(p) IN
  IF a.ref = 0 THEN a
  ELSE LET type == ProjectileType(key)
           shooterSize == IF source # 0 /\ m.ent[source].hasTransform
                          THEN m.ent[source].width ELSE 1
           size == shooterSize * Or(options.sizeScale, type.sizeScale)
           chainRange == Max(0, Or(options.chainRange, 0))
           rec == [a.pm.obj[a.ref] EXCEPT
                     !.id = p.nextId, !.key = key, !.source = source,
                     !.x = position.x, !.y = position.y, !.dirX = Normalize(dirX),
                     !.speed = Or(options.overrideSpeed, type.speed),
                     !.damage = Or(options.overrideDamage, type.damage),
                     !.lifetime = Or(options.overrideLifetime,
                                     Min(type.lifetime, p.config.maxLifetime)),
                     !.size = size,
                     !.radius = (size * type.collisionRadiusScale) \div 100,
                     !.pierce = Max(0, Or(options.pierce, 0)),
                     !.effects = options.effects,
                     !.remainingChains = Max(0, Or(options.chain, 0)),
                     !.chainRange = IF chainRange = 0 THEN DefaultChainRange
                                    ELSE chainRange,
                     !.colorOverride = options.color,
                     !.hitIds = {},
                     !.isPlayerProjectile = flags.isPlayerProjectile,
                     !.isEnemyProjectile = flags.isEnemyProjectile,
                     !.active = TRUE]
       IN [pm |-> [a.pm EXCEPT
                     !.obj[a.ref] = rec,
                     !.nextId = @ + 1,
                     !.active = Append(@, a.ref),
                     !.flights = Append(@, [byPlayer |-> rec.isPlayerProjectile,
                                            pierce |-> rec.pierce,
                                            chain |-> rec.remainingChains,
                                            hits |-> <<>>, hitRelease |-> FALSE,
                                            wallRelease |-> FALSE,
                                            parent |-> 0, barred |-> {}])],
           ref |-> a.ref]

\* releaseAtIndex
ReleaseAtIndex(p, index) ==
  LET removed == p.active[index] IN
  [p EXCEPT !.active = SubSeq(@, 1, index - 1) \o SubSeq(@, index + 1, Len(@)),
            !.obj[removed] = [@ EXCEPT !.active = FALSE, !.hitIds = {},
                                       !.effects = <<>>, !.remainingChains = 0,
                                       !.chainRange = 0, !.colorOverride = Absent],
            !.pool = IF p.config.enableObjectPooling THEN Append(@, removed) ELSE @]

\* The state the projectile operations work on: the combat world w, the
\* manager pm and the tile map tm it was given (setTileMap), NoTileMap
\* when none was.
Flying(W, p, t) == [w |-> W, pm |-> p, tm |-> t]

\* getCollisionRadius, in tenths
GetCollisionRadius(e) == IF e.hasCollision THEN e.radius ELSE e.width * 5

\* distSq <= maxDist * maxDist, for the centre of e; the differences are
\* doubled, maxDist is in hundredths.
Overlaps(q, e) ==
  LET dx2 == 2 * e.x + e.width - 2 * q.x
      dy2 == e.width - 2 * q.y
      maxDist == q.radius + 10 * GetCollisionRadius(e)
  IN (dx2 * dx2 + dy2 * dy2) * 2500 <= maxDist * maxDist

\* applyEffects: the effects of a projectile are kept as the status effects
\* they map to; the knockback push (transform.vx) is not followed.
ApplyEffects(W, target, effects) ==
  IF Len(effects) = 0 THEN W ELSE ApplyStatusEffects(W, target, effects)

\* findNextChainTarget: the nearest enemy in range, the first of the nearest;
\* 0 for null.
RECURSIVE NearestFrom(_, _, _, _, _, _)
NearestFrom(m, list, cx, alreadyHit, range, best) ==
  IF list = <<>> THEN best
  ELSE LET e == m.ent[Head(list)]
           dx == e.x - cx
           skip == \/ ~e.active \/ e.id \in alreadyHit \/ ~e.hasTransform
                   \/ dx * dx > range * range
                   \/ /\ best # 0
                      /\ dx * dx >= (m.ent[best].x - cx) * (m.ent[best].x - cx)
       IN NearestFrom(m, Tail(list), cx, alreadyHit, range,
                      IF skip THEN best ELSE e.id)
FindNextChainTarget(m, current, alreadyHit, range) ==
  IF ~m.ent[current].hasTransform THEN 0
  ELSE NearestFrom(m, m.enemies, m.ent[current].x, alreadyHit, range, 0)

\* handleChain (it returns false on every path)
HandleChain(S, ref, hitTarget) ==
  LET q == S.pm.obj[ref] IN
  IF q.remainingChains <= 0 THEN S
  ELSE
    LET S1 == [S EXCEPT !.pm.obj[ref].remainingChains = @ - 1]
        m == S.w.em
        next == FindNextChainTarget(m, hitTarget, q.hitIds, q.chainRange)
    IN IF next = 0 THEN S1
       ELSE IF ~m.ent[hitTarget].hasTransform \/ ~m.ent[next].hasTransform THEN S1
       ELSE
         LET t == m.ent[hitTarget]
             s == Spawn(S1.pm, m, q.key,
                        [x |-> t.x + t.width \div 2, y |-> t.width \div 2],
                        m.ent[next].x - t.x, q.source,
                        [isPlayerProjectile |-> q.isPlayerProjectile,
                         isEnemyProjectile |-> q.isEnemyProjectile],
                        [overrideSpeed |-> q.speed, overrideDamage |-> q.damage,
                         overrideLifetime |-> Absent,
                         sizeScale |-> q.size \div Max(1, t.width),
                         pierce |-> q.pierce, color |-> q.colorOverride,
                         effects |-> q.effects, chain |-> q.remainingChains - 1,
                         chainRange |-> q.chainRange])
         IN IF s.ref = 0 THEN [S1 EXCEPT !.pm = s.pm]
            ELSE [S1 EXCEPT !.pm = [s.pm EXCEPT
                     !.obj[s.ref].hitIds = @ \cup s.pm.obj[ref].hitIds \cup {hitTarget},
                     !.flights[s.pm.obj[s.ref].id].parent = q.id,
                     !.flights[s.pm.obj[s.ref].id].barred = q.hitIds]]

\* if (p.pierce > 0)
PierceLeft(q) == q.pierce > 0

\* The loop of checkEnemyHit over the enemies array it started on:
\* [s |-> the state after, consumed |-> the value returned]
RECURSIVE EnemyHitLoop(_, _, _)
EnemyHitLoop(S, ref, list) ==
  IF list = <<>> THEN [s |-> S, consumed |-> FALSE]
  ELSE
    LET enemy == S.w.em.ent[Head(list)]
        q == S.pm.obj[ref] IN
    IF \/ ~enemy.active \/ enemy.id \in q.hitIds \/ ~enemy.hasTransform
       \/ ~Overlaps(q, enemy)
    THEN EnemyHitLoop(S, ref, Tail(list))
    ELSE
      LET W1 == ApplyEffects(ApplyDamage(S.w, enemy.id, q.damage).w, enemy.id, q.effects)
          S1 == [w |-> W1, tm |-> S.tm,
                 pm |-> [S.pm EXCEPT !.obj[ref].hitIds = @ \cup {enemy.id},
                                     !.flights[q.id].hits = Append(@, enemy.id)]]
          S2 == HandleChain(S1, ref, enemy.id)
      IN IF PierceLeft(S2.pm.obj[ref])
         THEN EnemyHitLoop([S2 EXCEPT !.pm.obj[ref].pierce = @ - 1], ref, Tail(list))
         ELSE [s |-> [S2 EXCEPT !.pm.obj[ref].active = FALSE], consumed |-> TRUE]

\* checkEnemyHit
CheckEnemyHit(S, ref) == EnemyHitLoop(S, ref, S.w.em.enemies)

\* checkPlayerHit
CheckPlayerHit(S, ref) ==
  LET m == S.w.em
      q == S.pm.obj[ref] IN
  IF m.player = 0 \/ ~m.ent[m.player].active THEN [s |-> S, consumed |-> FALSE]
  ELSE LET player == m.ent[m.player] IN
       IF ~player.hasTransform \/ ~Overlaps(q, player) \/ player.id \in q.hitIds
       THEN [s |-> S, consumed |-> FALSE]
       ELSE LET W1 == IF S.pm.config.enableFriendlyFire \/ q.isEnemyProjectile
                      THEN ApplyEffects(ApplyDamage(S.w, player.id, q.damage).w,
                                        player.id, q.effects)
                      ELSE S.w
            IN [s |-> [w |-> W1, tm |-> S.tm,
                       pm |-> [S.pm EXCEPT !.obj[ref].hitIds = @ \cup {player.id},
                                           !.obj[ref].active = FALSE,
                                           !.flights[q.id].hits = Append(@, player.id)]],
                consumed |-> TRUE]

\* Math.floor(a / b) for b > 0
FloorDiv(a, b) == a \div b

\* The sample points of collidesWithWall, in hundredths of a pixel.
Samples(q) ==
  << [x |-> 100 * q.x, y |-> 100 * q.y],
     [x |-> 100 * q.x + q.radius, y |-> 100 * q.y],
     [x |-> 100 * q.x - q.radius, y |-> 100 * q.y],
     [x |-> 100 * q.x, y |-> 100 * q.y + q.radius],
     [x |-> 100 * q.x, y |-> 100 * q.y - q.radius] >>

\* The loop of collidesWithWall over the samples from the k-th on:
\* [tm |-> the tile map after, blocked |-> the value returned].
RECURSIVE SampleLoop(_, _, _)
SampleLoop(t, q, k) ==
  IF k > Len(Samples(q)) THEN [tm |-> t, blocked |-> FALSE]
  ELSE
    LET tx == FloorDiv(Samples(q)[k].x, 100 * t.virtualPixelScale)
        ty == FloorDiv(Samples(q)[k].y, 100 * t.virtualPixelScale) IN
    IF tx < 0 \/ ty < 0 \/ tx >= t.width \/ ty >= t.height
    THEN [tm |-> t, blocked |-> TRUE]
    ELSE IF ~IsBlocked(t, tx, ty) THEN SampleLoop(t, q, k + 1)
    ELSE
      LET tile == GetTile(t, tx, ty)
          isWall == tile.base = Wall
          indestructible == tile.base = Wall /\ TreatedAsIndestructible(tile) IN
      IF isWall /\ q.isPlayerProjectile /\ ~indestructible
      THEN LET d == DamageWallTile(t, tx, ty, 1) IN
           IF ~d.destroyed THEN [tm |-> d.tm, blocked |-> TRUE]
           ELSE SampleLoop(d.tm, q, k + 1)
      ELSE [tm |-> t, blocked |-> TRUE]

\* collidesWithWall: [s |-> the state after, blocked |-> the value returned]
CollidesWithWallMut(S, ref) ==
  IF ~S.tm.built THEN [s |-> S, blocked |-> FALSE]
  ELSE [s |-> S, blocked |-> SampleLoop(S.tm, S.pm.obj[ref], 1).blocked]
CollidesWithWall(S, ref) ==
  IF ~S.tm.built THEN [s |-> S, blocked |-> FALSE]
  ELSE LET c == SampleLoop(S.tm, S.pm.obj[ref], 1) IN
       [s |-> [S EXCEPT !.tm = c.tm], blocked |-> c.blocked]

\* update, after checkEnemyHit or checkPlayerHit returned h for the
\* projectile ref at index i: [s |-> the state, next |-> the index the loop
\* goes on with].
AfterHit(h, ref, i) ==
  LET now == h.s.pm.obj[ref] IN
  IF h.consumed \/ ~now.active
  THEN [s |-> [h.s EXCEPT !.pm = ReleaseAtIndex(
                  [@ EXCEPT !.flights[now.id].hitRelease = TRUE], i)],
        next |-> i]
  ELSE [s |-> h.s, next |-> i + 1]

\* update, after collidesWithWall returned c for the projectile ref
AfterWall(c, ref, i) ==
  LET q == c.s.pm.obj[ref] IN
  IF c.blocked
  THEN [s |-> [c.s EXCEPT !.pm = ReleaseAtIndex(
                  [@ EXCEPT !.obj[ref].active = FALSE,
                            !.flights[q.id].wallRelease = TRUE], i)],
        next |-> i]
  ELSE AfterHit(IF q.isPlayerProjectile THEN CheckEnemyHit(c.s, ref)
                ELSE IF q.isEnemyProjectile THEN CheckPlayerHit(c.s, ref)
                ELSE [s |-> c.s, consumed |-> FALSE], ref, i)

\* One pass of the loop of ProjectileManager.update, at index i (counted
\* from 1).
UpdateStep(S, i, dt) ==
  LET ref == S.pm.active[i]
      q == S.pm.obj[ref] IN
  IF ~q.active THEN [s |-> [S EXCEPT !.pm = ReleaseAtIndex(@, i)], next |-> i]
  ELSE IF q.lifetime - dt <= 0
  THEN [s |-> [S EXCEPT !.pm = ReleaseAtIndex(
                  [@ EXCEPT !.obj[ref].lifetime = q.lifetime - dt,
                            !.obj[ref].active = FALSE], i)],
        next |-> i]
  ELSE AfterWall(
         CollidesWithWall(
           [S EXCEPT !.pm.obj[ref].lifetime = q.lifetime - dt,
                     !.pm.obj[ref].x = q.x + q.dirX * q.speed * dt], ref),
         ref, i)

\* The loop of ProjectileManager.update, from index i on.
RECURSIVE UpdateLoop(_, _, _)
UpdateFrom(r, dt) == UpdateLoop(r.s, r.next, dt)
UpdateLoop(S, i, dt) ==
  IF i > Len(S.pm.active) THEN S ELSE UpdateFrom(UpdateStep(S, i, dt), dt)

\* ProjectileManager.update
ProjectileUpdate(S, dt) == UpdateLoop(S, 1, dt)

-----------------------------------------------------------------------------
(* EntityManager.update (part_002) and the attack callback the game gives  *)
(* to every enemy (Game.handleEnemyAttack, part_000).  The operations work *)
(* on a flying state S = [w, pm, tm].  dt is in frames, positions are in   *)
(* pixels on the line y = 0, velocities in ten-thousandths of a pixel per  *)
(* frame (the product of two speeds in hundredths).                        *)

\* Game.handleEnemyAttack: a ranged enemy spits, any other strikes the
\* player when the player is within the range of its Attack component.
HandleEnemyAttack(S, id, dirX) ==
  LET e == S.w.em.ent[id]
      p == S.w.em.player IN
  IF e.enemyType = "" \/ ~e.hasTransform THEN S
  ELSE IF e.enemyType \in {"RangedShooter", "Spitter"}
  THEN IF S.pm = [built |-> FALSE] THEN S
       ELSE [S EXCEPT !.pm =
               Spawn(S.pm, S.w.em, "enemySpit",
                     [x |-> e.x + e.width \div 2, y |-> e.width \div 2], dirX, id,
                     [isPlayerProjectile |-> FALSE, isEnemyProjectile |-> TRUE],
                     [ProjectileOptions(IF e.hasAttack THEN e.damage ELSE 6,
                                        Absent, <<>>, Absent)
                        EXCEPT !.sizeScale = 34]).pm]
  ELSE IF p = 0 THEN S
  ELSE IF ~S.w.em.ent[p].hasHealth \/ ~S.w.em.ent[p].hasTransform THEN S
  ELSE LET dx == S.w.em.ent[p].x - e.x
           range == IF e.hasAttack THEN e.range ELSE 12 IN
       IF dx * dx <= range * range
       THEN [S EXCEPT !.w = ApplyDamage(S.w, p, IF e.hasAttack THEN e.damage ELSE 5).w]
       ELSE S

\* The movement of lines 43-53: the position follows the velocity and is
\* clamped into the grid when a tile map is set.
Moved(e, t, dt) ==
  IF ~e.hasTransform THEN e
  ELSE LET x1 == e.x + (e.vx * dt) \div 10000 IN
       IF t.built
       THEN [e EXCEPT !.x = Max(0, Min(t.width * t.virtualPixelScale - e.width, x1))]
       ELSE [e EXCEPT !.x = x1]

\* The direction an AI of the given behaviour walks in (lines 67-79), for
\* the direction dir towards the target at distance dist.
Heading(ai, dir, dist) ==
  IF ai.behavior = "spitter"
  THEN IF dist < ai.idealRangeMin THEN 0 - dir
       ELSE IF dist > ai.idealRangeMax THEN dir
       ELSE 0
  ELSE dir

\* dist <= (ai.attackRange || attack?.range || 0)
CanAttackMut(e, dist) == TRUE
CanAttack(e, dist) ==
  dist <= (IF e.ai.attackRange # 0 THEN e.ai.attackRange
           ELSE IF e.hasAttack THEN e.range ELSE 0)

\* The body of the loop of update for an active entity id (lines 43-93).
UpdateEntity(S, id, dt) ==
  LET e1 == AttackTick(Moved(S.w.em.ent[id], S.tm, dt), dt)
      hasAttack == e1.hasAttack IN
  IF ~(e1.hasAI /\ e1.hasTransform)
  THEN [S EXCEPT !.w.em.ent[id] = e1]
  ELSE
    LET e2 == [e1 EXCEPT !.cooldownTimer = Max(0, e1.cooldownTimer - dt),
                         !.lockedTimer = Max(0, e1.lockedTimer - dt)]
        target == S.w.em.player
    IN
    IF target = 0 \/ ~S.w.em.ent[target].hasTransform
    THEN [S EXCEPT !.w.em.ent[id] = e2]
    ELSE
      LET dx == S.w.em.ent[target].x - e2.x
          dist == IF dx = 0 THEN 1 ELSE IF dx > 0 THEN dx ELSE 0 - dx
          dir == dx \div dist
          moveSpeed == e2.speed * (IF e2.ai.moveSpeed > 0 THEN e2.ai.moveSpeed ELSE 100)
      IN
      IF dist > e2.ai.aggressionRadius
      THEN [S EXCEPT !.w.em.ent[id] = [e2 EXCEPT !.vx = 0]]
      ELSE
        LET e3 == [e2 EXCEPT !.vx = Heading(e2.ai, dir, dist) * moveSpeed] IN
        IF /\ CanAttack(e3, dist)
           /\ (~hasAttack \/ e3.lockTimer <= 0)
           /\ e3.cooldownTimer <= 0 /\ e3.lockedTimer <= 0
        THEN
          LET e4 == IF hasAttack THEN AttackTrigger(e3) ELSE e3
              e5 == [e4 EXCEPT !.cooldownTimer = e4.ai.attackCooldown,
                               !.lockedTimer = e4.ai.attackLockDuration]
          IN HandleEnemyAttack([S EXCEPT !.w.em.ent[id] = e5,
                                         !.w.attacks = Append(@, id)], id, dir)
        ELSE [S EXCEPT !.w.em.ent[id] = e3]

\* The array that the for-of loop of update walks is the one that
\* this.entities named when the loop began: removeEntity gives this.entities
\* a new, filtered array and leaves the old one as it was.
HeldMut(list, m) == m.entities
Held(list, m) == list

\* The loop of update from index i on: r = [s |-> the state, turns |-> the
\* ids the body has run for, in order].
RECURSIVE EntityLoop(_, _, _, _)
EntityLoop(r, list, i, dt) ==
  LET walked == Held(list, r.s.w.em) IN
  IF i > Len(walked) THEN r
  ELSE IF ~r.s.w.em.ent[walked[i]].active THEN EntityLoop(r, list, i + 1, dt)
  ELSE EntityLoop([s |-> UpdateEntity(r.s, walked[i], dt),
                   turns |-> Append(r.turns, walked[i])], list, i + 1, dt)

\* EntityManager.update
EntityUpdate(S, dt) == EntityLoop([s |-> S, turns |-> <<>>], S.w.em.entities, 1, dt)

-----------------------------------------------------------------------------
(* The game's setup of the store (part_000 lines 244-261, 721-739)         *)

PlayerSpeed == 200   \* transform.speed = 2, in hundredths

\* The Attack component of the player is AttackComponent(12, 12, 999).
NewPlayer ==
  WithAttack(
    WithCollision(
      WithHealth(WithTransform(NewEntity(0, "player"), 0, TileSize, PlayerSpeed),
                 PlayerHealth, PlayerInvulnFrames),
      TileSize * 5),
    12, 12, 999)

\* spawnXpPickup: a Transform and a Pickup component, no Health.
NewPickup == WithTransform(NewEntity(0, "pickup"), 0, 3, 0)

NewCombat ==
  [flags |-> [infinitePlayerHealth |-> FALSE, oneHitKillEnemies |-> FALSE],
   killCount |-> 0,
   modifier |-> "none",
   statuses |-> <<>>]

Idle == [op |-> "init", target |-> 0, amount |-> 0, result |-> FALSE,
         count |-> 0, dmgCalls |-> 0, killCalls |-> 0,
         x |-> 0, y |-> 0, before |-> BlankTile, map |-> NoTileMap,
         options |-> <<>>, turns |-> <<>>, since |-> <<>>]

NoWaves == [active |-> FALSE]
NoProjectiles == [built |-> FALSE]

-----------------------------------------------------------------------------
(* WeaponController, EquippedWeapon, weaponRegistry and the ore of         *)
(* ProgressionState                                                        *)

MaxSlots == 4    \* MAX_SLOTS
MaxTiers == 5    \* MAX_TIERS

\* WEAPON_REGISTRY: the costOre of the tiers of each blueprint, in order.
WeaponRegistry ==
  [blaster |-> <<12, 22, 36, 55, 80>>,
   cryo    |-> <<12, 22, 36, 55, 80>>,
   chain   |-> <<14, 26, 42, 60, 90>>,
   venom   |-> <<12, 22, 38, 60, 90>>]

\* getWeaponBlueprint(id) is defined
HasBlueprint(id) == id \in DOMAIN WeaponRegistry

\* new EquippedWeapon(blueprintId)
NewWeapon(blueprintId) == [blueprintId |-> blueprintId, currentTier |-> 0]

\* new WeaponController(new ProgressionState(), ...): no weapon, no ore
NewWeaponController == [weapons |-> <<>>, ore |-> 0]

\* ProgressionState.addOre
AddOre(c, amount) ==
  LET clamped == Max(0, amount) IN [c EXCEPT !.ore = Max(0, c.ore + clamped)]

\* ProgressionState.spendOre: [wc, ok |-> the value returned]
SpendOreMut(c, amount) == [wc |-> [c EXCEPT !.ore = @ - Max(0, amount)], ok |-> TRUE]
SpendOre(c, amount) ==
  LET cost == Max(0, amount) IN
  IF c.ore < cost THEN [wc |-> c, ok |-> FALSE]
  ELSE [wc |-> [c EXCEPT !.ore = @ - cost], ok |-> TRUE]

\* EquippedWeapon.tryUpgrade: the weapon after the call
UpgradeWeapon(w) ==
  IF w.currentTier >= MaxTiers THEN w ELSE [w EXCEPT !.currentTier = @ + 1]

\* WeaponController.equip: [wc, ok]
Equip(c, blueprintId) ==
  IF Len(c.weapons) >= MaxSlots THEN [wc |-> c, ok |-> FALSE]
  ELSE IF ~HasBlueprint(blueprintId) THEN [wc |-> c, ok |-> FALSE]
  ELSE [wc |-> [c EXCEPT !.weapons = Append(@, NewWeapon(blueprintId))], ok |-> TRUE]

\* WeaponController.swapSlots; slots count from 0
SwapSlots(c, a, b) ==
  IF a < 0 \/ b < 0 \/ a >= Len(c.weapons) \/ b >= Len(c.weapons) THEN c
  ELSE [c EXCEPT !.weapons[a + 1] = c.weapons[b + 1], !.weapons[b + 1] = c.weapons[a + 1]]

\* WeaponController.remove
RemoveWeapon(c, slot) ==
  IF slot < 0 \/ slot >= Len(c.weapons) THEN c
  ELSE [c EXCEPT !.weapons =
          [i \in 1..(Len(c.weapons) - 1) |->
             IF i <= slot THEN c.weapons[i] ELSE c.weapons[i + 1]]]

\* WeaponController.tryUpgrade: [wc, ok |-> the value returned].  The
\* value EquippedWeapon.tryUpgrade returns is not looked at.
TryUpgrade(c, slot) ==
  IF slot < 0 \/ slot >= Len(c.weapons) THEN [wc |-> c, ok |-> FALSE]
  ELSE
    LET weapon == c.weapons[slot + 1] IN
    IF ~HasBlueprint(weapon.blueprintId) THEN [wc |-> c, ok |-> FALSE]
    ELSE
      LET tiers == WeaponRegistry[weapon.blueprintId]
          nextTierIndex == weapon.currentTier IN
      IF nextTierIndex >= Len(tiers) THEN [wc |-> c, ok |-> FALSE]
      ELSE
        LET spent == SpendOre(c, tiers[nextTierIndex + 1]) IN
        IF ~spent.ok THEN [wc |-> c, ok |-> FALSE]
        ELSE [wc |-> [spent.wc EXCEPT !.weapons[slot + 1] = UpgradeWeapon(weapon)],
              ok |-> TRUE]

-----------------------------------------------------------------------------
(* Specification SpecCombat: damage, healing, damage over time and the     *)
(* debug flags, on a store holding the player, one enemy and one pickup.   *)

CombatStore ==
  LET m1 == CreateEntity(EmptyManager, NewPlayer)
      m2 == SpawnOne(m1, Registry[1], 0)
  IN CreateEntity(m2, NewPickup)

InitCombat ==
  /\ em = CombatStore
  /\ cs = NewCombat
  /\ sc = NewSpawnController(2, TileSize)
  /\ wm = NoWaves
  /\ pm = NoProjectiles
  /\ tm = NoTileMap
  /\ wc = NewWeaponController
  /\ last = Idle

\* Effects the weapons put on projectiles (EquippedWeapon.ts 107-124,
\* weaponRegistry.ts 53, 105): durations in ticks, pct in tenths, dps per
\* tick.
EffectDuration == MaxDt + 1
DotCatalogue == {Effect("burn", EffectDuration, 0, 1)}
MoveCatalogue ==
  {Effect("slow", EffectDuration, p, 0) : p \in {4, 10}}
  \cup {Effect("freeze", MaxDt, 0, 0), Effect("poison", EffectDuration, 0, 1)}

EffectCount(c) ==
  LET RECURSIVE Sum(_)
      Sum(i) == IF i = 0 THEN 0 ELSE Sum(i - 1) + Len(c.statuses[i].effects)
  IN Sum(Len(c.statuses))

\* A caller (projectile hit, enemy attack) damages an entity of the store.
DoApplyDamage ==
  \E t \in Range(em.entities), amount \in {-1, 1, MaxAmount} :
    LET R == ApplyDamage(World(em, cs), t, amount) IN
    /\ em' = R.w.em
    /\ cs' = R.w.cs
    /\ UNCHANGED wc
    /\ last' = [Idle EXCEPT !.op = "applyDamage", !.target = t, !.amount = amount,
                            !.result = R.r, !.dmgCalls = R.w.dmgCalls,
                            !.killCalls = R.w.killCalls]
    /\ UNCHANGED <<sc, wm, pm, tm>>

\* health.heal(amount) on an entity of the store (the game's regeneration).
DoHeal ==
  \E t \in Range(em.entities), amount \in {-1, 1, MaxAmount} :
    /\ em.ent[t].hasHealth
    /\ em' = [em EXCEPT !.ent[t] = Heal(em.ent[t], amount)]
    /\ UNCHANGED wc
    /\ last' = [Idle EXCEPT !.op = "heal", !.target = t, !.amount = amount]
    /\ UNCHANGED <<cs, sc, wm, pm, tm>>

\* A hit of a player projectile puts one of its effects on an enemy (enemy
\* projectiles carry none, part_000 lines 559-569).
ApplyEffectFrom(catalogue) ==
  \E t \in Range(em.enemies), eff \in catalogue :
    /\ em.ent[t].active
    /\ EffectCount(cs) < MaxEffects
    /\ LET W == ApplyStatusEffects(World(em, cs), t, <<eff>>) IN
       /\ em' = W.em
       /\ cs' = W.cs
    /\ UNCHANGED wc
    /\ last' = [Idle EXCEPT !.op = "applyStatusEffects", !.target = t]
    /\ UNCHANGED <<sc, wm, pm, tm>>

DoApplyDot == ApplyEffectFrom(DotCatalogue)
DoApplyMoveEffect == ApplyEffectFrom(MoveCatalogue)

DoCombatUpdate ==
  \E dt \in 1..MaxDt :
    LET W == CombatUpdate(World(em, cs), dt) IN
    /\ em' = W.em
    /\ cs' = W.cs
    /\ UNCHANGED wc
    /\ last' = [Idle EXCEPT !.op = "update", !.amount = dt,
                            !.dmgCalls = W.dmgCalls, !.killCalls = W.killCalls]
    /\ UNCHANGED <<sc, wm, pm, tm>>

\* CombatSystem.setFlags: one debug switch at a time.
DoSetFlags ==
  \E f \in [infinitePlayerHealth : BOOLEAN, oneHitKillEnemies : BOOLEAN] :
    /\ f # cs.flags
    /\ ~(f.infinitePlayerHealth /\ f.oneHitKillEnemies)
    /\ cs.modifier = "none"
    /\ cs' = [cs EXCEPT !.flags = f]
    /\ UNCHANGED wc
    /\ last' = [Idle EXCEPT !.op = "setFlags"]
    /\ UNCHANGED <<em, sc, wm, pm, tm>>

\* CombatSystem.setDamageModifier
DoSetDamageModifier ==
  \E k \in {"none", "resist", "negate"} :
    /\ k # cs.modifier
    /\ ~cs.flags.infinitePlayerHealth /\ ~cs.flags.oneHitKillEnemies
    /\ cs' = [cs EXCEPT !.modifier = k]
    /\ UNCHANGED wc
    /\ last' = [Idle EXCEPT !.op = "setDamageModifier"]
    /\ UNCHANGED <<em, sc, wm, pm, tm>>

NextCombat ==
  \/ DoApplyDamage
  \/ DoHeal
  \/ DoApplyDot
  \/ DoCombatUpdate
  \/ DoSetFlags
  \/ DoSetDamageModifier

SpecCombat == InitCombat /\ [][NextCombat]_vars

\* SpecDot: burns and poisons are put on the player, who starts with
\* invulnerability frames, and on the enemy, with the flags and the damage
\* hook as the constructor leaves them.
DotKinds ==
  {Effect(type, EffectDuration, 0, 1) : type \in {"burn", "poison"}}
  \cup {Effect("burn", EffectDuration, 0, 0), Effect("burn", 1, 0, 1)}

DoApplyDotTo ==
  \E t \in Range(em.entities), eff \in DotKinds :
    /\ em.ent[t].active /\ em.ent[t].hasHealth
    /\ EffectCount(cs) < MaxEffects
    /\ LET W == ApplyStatusEffects(World(em, cs), t, <<eff>>) IN
       /\ em' = W.em
       /\ cs' = W.cs
    /\ UNCHANGED wc
    /\ last' = [Idle EXCEPT !.op = "applyStatusEffects", !.target = t]
    /\ UNCHANGED <<sc, wm, pm, tm>>

NextDot ==
  \/ DoApplyDotTo
  \/ DoCombatUpdate

SpecDot == InitCombat /\ [][NextDot]_vars

-----------------------------------------------------------------------------
(* Specification SpecStatus: the status effects of movement and of damage  *)
(* over time, on a store holding one enemy.                                *)

StatusStore == SpawnOne(EmptyManager, Registry[1], 0)

InitStatus ==
  /\ em = StatusStore
  /\ cs = NewCombat
  /\ sc = NewSpawnController(2, TileSize)
  /\ wm = NoWaves
  /\ pm = NoProjectiles
  /\ tm = NoTileMap
  /\ wc = NewWeaponController
  /\ last = Idle

NextStatus ==
  \/ DoApplyMoveEffect
  \/ DoCombatUpdate

SpecStatus == InitStatus /\ [][NextStatus]_vars

-----------------------------------------------------------------------------
(* Specification SpecWaves: the wave manager driving the spawn controller, *)
(* on a store that starts empty, in a world one tile wide.                 *)

\* Bounds of the wave specifications: the largest count asked of
\* spawnEnemyType and spawnBatch, the number of onWaveComplete calls
\* followed, and the longest run of a wave followed.
MaxCount == 3
MaxCompleted == 2
MaxElapsed == TicksPerSecond + 2

DefaultMaxEnemies == 300   \* DEFAULT_CONFIG.maxEnemies

CostOf(type, c) == [t \in {type} |-> c]
Mix(type) == <<[type |-> type, weight |-> 1]>>

WaveOptions(waves, base, intermission, clear, loop) ==
  [waves |-> waves, baseEnemyCosts |-> base, intermissionSeconds |-> intermission,
   clearEnemiesOnWaveStart |-> clear, loopLastWave |-> loop]

\* One wave of one second: ten SmallChaser a second at cost 1, no events.
CheapWave ==
  WaveDefinition(TicksPerSecond, 10, CostOf("SmallChaser", 1), Mix("SmallChaser"), <<>>)

\* Two waves with timed events of each kind; the second event of the first
\* wave is due at the start, and the last event of the second wave only
\* after the wave's duration.  "Bat" is not in the registry.
EventWaves ==
  << WaveDefinition(3, 2, CostOf("SmallChaser", 1),
       <<[type |-> "SmallChaser", weight |-> 1], [type |-> "Tank", weight |-> 1],
         [type |-> "Bat", weight |-> 0]>>,
       <<BurstSpawn(2, <<[type |-> "SmallChaser", count |-> 2],
                         [type |-> "Bat", count |-> 1]>>),
         EliteSpawn(0, "Tank", 1)>>),
     WaveDefinition(2, 3, <<>>, Mix("Tank"),
       <<WeightedBurst(1, 2, <<[type |-> "SmallChaser", weight |-> 1],
                               [type |-> "Tank", weight |-> 1]>>),
         BurstSpawn(3, <<[type |-> "Tank", count |-> 1]>>)>>) >>

InitWaves ==
  /\ em = EmptyManager
  /\ cs = NewCombat
  /\ \/ /\ sc = NewSpawnController(DefaultMaxEnemies, TileSize)
        /\ \E intermission \in {0, 2}, loop \in BOOLEAN :
             wm = NewWaveManager(
                    WaveOptions(<<CheapWave>>, <<>>, intermission, loop, loop))
     \/ /\ \E mx \in {0, 3} : sc = NewSpawnController(mx, TileSize)
        /\ \E intermission \in {0, 2}, loop \in BOOLEAN :
             wm = NewWaveManager(
                    WaveOptions(EventWaves, CostOf("Tank", 2), intermission, loop, loop))
  /\ pm = NoProjectiles
  /\ tm = NoTileMap
  /\ wc = NewWeaponController
  /\ last = Idle

\* The result V of an operation becomes the next state.
Becomes(V) ==
  /\ V.wm.elapsed <= MaxElapsed
  /\ V.wm.completed <= MaxCompleted
  /\ em' = V.em
  /\ sc' = V.sc
  /\ wm' = V.wm
  /\ UNCHANGED <<cs, pm, tm>>

DoWaveStart ==
  /\ ~wm.active /\ wm.completed = 0
  /\ Becomes(WaveStart(Stage(em, sc, wm)))
  /\ UNCHANGED wc
  /\ last' = [Idle EXCEPT !.op = "start"]

\* last.result tells whether the step was spent in the intermission.
DoWaveUpdate ==
  \E dt \in 1..MaxDt, rnd \in Randoms, x \in SpawnXs(sc) :
    /\ wm.active
    /\ Becomes(WaveUpdate(Stage(em, sc, wm), dt, rnd, x))
    /\ UNCHANGED wc
    /\ last' = [Idle EXCEPT !.op = "update", !.amount = dt,
                            !.result = wm.intermissionTimer > 0]

DoSkipToNextWave ==
  /\ wm.active
  /\ Becomes(SkipToNextWave(Stage(em, sc, wm)))
  /\ UNCHANGED wc
  /\ last' = [Idle EXCEPT !.op = "skipToNextWave"]

NextWaves ==
  \/ DoWaveStart
  \/ DoWaveUpdate
  \/ DoSkipToNextWave

SpecWaves == InitWaves /\ [][NextWaves]_vars

\* SpecBudget: one wave of three ticks that spawns continuously, with a
\* budget that trickles or floods in, over cost tables with two positive
\* costs, with a zero, a negative and a missing cost, and with no positive
\* cost at all; the spawn controller has room for all or for 3 enemies.
BudgetCosts ==
  {[t \in {"SmallChaser", "Tank"} |-> IF t = "Tank" THEN 2 ELSE c] : c \in {-1, 0, 1}}
  \cup {CostOf("Tank", 2), CostOf("SmallChaser", 0)}

BudgetWave(bps, costs) ==
  WaveDefinition(3, bps, costs,
    <<[type |-> "SmallChaser", weight |-> 1], [type |-> "Tank", weight |-> 1]>>, <<>>)

InitBudget ==
  /\ em = EmptyManager
  /\ cs = NewCombat
  /\ \E mx \in {3, DefaultMaxEnemies} : sc = NewSpawnController(mx, TileSize)
  /\ \E bps \in {3, DefaultMaxEnemies}, costs \in BudgetCosts :
       wm = NewWaveManager(
              WaveOptions(<<BudgetWave(bps, costs)>>, <<>>, 0, FALSE, FALSE))
  /\ pm = NoProjectiles
  /\ tm = NoTileMap
  /\ wc = NewWeaponController
  /\ last = Idle

NextBudget ==
  \/ DoWaveStart
  \/ DoWaveUpdate

SpecBudget == InitBudget /\ [][NextBudget]_vars

-----------------------------------------------------------------------------
(* Specification SpecSpawn: callers of the spawn controller, deaths of     *)
(* enemies and a wave manager with one short wave, on a store that starts  *)
(* empty.  The callers stop once MaxEntities entities have been created.   *)

ShortWave ==
  WaveDefinition(2, 2, CostOf("SmallChaser", 1), Mix("SmallChaser"),
                 <<BurstSpawn(1, <<[type |-> "Tank", count |-> 2]>>)>>)

InitSpawn ==
  /\ em = EmptyManager
  /\ cs = NewCombat
  /\ sc = NewSpawnController(2, TileSize)
  /\ wm = NewWaveManager(WaveOptions(<<ShortWave>>, <<>>, 0, FALSE, FALSE))
  /\ pm = NoProjectiles
  /\ tm = NoTileMap
  /\ wc = NewWeaponController
  /\ last = Idle

DoSpawnEnemyType ==
  \E type \in RegisteredTypes \cup {"Bat"}, count \in 0..MaxCount, x \in SpawnXs(sc) :
    LET s == SpawnEnemyType(sc, em, type, count, x) IN
    /\ Len(s.em.ent) <= MaxEntities
    /\ Becomes(Stage(s.em, s.sc, wm))
    /\ UNCHANGED wc
    /\ last' = [Idle EXCEPT !.op = "spawnEnemyType", !.target = type,
                            !.amount = count, !.count = s.n]

DoSpawnBatch ==
  \E count \in 0..MaxCount, rnd \in Randoms, x \in SpawnXs(sc) :
    LET s == SpawnBatch(sc, em, count, rnd, x) IN
    /\ Len(s.em.ent) <= MaxEntities
    /\ Becomes(Stage(s.em, s.sc, wm))
    /\ UNCHANGED wc
    /\ last' = [Idle EXCEPT !.op = "spawnBatch", !.amount = count, !.count = s.n]

\* An enemy dies (CombatSystem.handleDeath) and leaves the store.
DoRemoveEnemy ==
  \E t \in Range(em.enemies) :
    /\ Becomes(Stage(RemoveEntity(em, t), sc, wm))
    /\ UNCHANGED wc
    /\ last' = [Idle EXCEPT !.op = "removeEntity", !.target = t]

NextSpawn ==
  \/ DoSpawnEnemyType
  \/ DoSpawnBatch
  \/ DoRemoveEnemy
  \/ DoWaveStart
  \/ DoWaveUpdate
  \/ DoSkipToNextWave

SpecSpawn == InitSpawn /\ [][NextSpawn]_vars

-----------------------------------------------------------------------------
(* Specification SpecProjectiles: the weapons of the player and of the     *)
(* enemies spawn projectiles and the projectile manager moves them, on a   *)
(* store holding the player and, crowding it, two SmallChasers and a Tank  *)
(* that have walked up to it.  Nothing else moves.                         *)

ProjectileStore ==
  LET m1 == CreateEntity(EmptyManager, NewPlayer)
      m2 == SpawnOne(m1, Registry[1], 0)
      m3 == SpawnOne(m2, Registry[1], 2)
  IN SpawnOne(m3, Registry[2], 3)

\* The pool is as large as the cap (as the game builds it), larger than
\* the cap, or not used at all.
ProjectileConfigs ==
  {ProjectileConfig(2, 2, TRUE, reuse) : reuse \in BOOLEAN}
  \cup {ProjectileConfig(3, 2, TRUE, TRUE), ProjectileConfig(0, 2, FALSE, TRUE)}

InitProjectiles ==
  /\ em = ProjectileStore
  /\ cs = NewCombat
  /\ sc = NewSpawnController(DefaultMaxEnemies, 3 * TileSize)
  /\ wm = NoWaves
  /\ \E config \in ProjectileConfigs : pm = NewProjectileManager(config)
  /\ tm = NoTileMap
  /\ wc = NewWeaponController
  /\ last = Idle

Centre(e) == [x |-> e.x + e.width \div 2, y |-> e.width \div 2]

\* The result of a projectile operation becomes the next state.
Lands(S) ==
  /\ S.pm.nextId <= MaxProjectileIds + 1
  /\ em' = S.w.em
  /\ cs' = S.w.cs
  /\ pm' = S.pm
  /\ tm' = S.tm
  /\ UNCHANGED <<sc, wm>>

\* The weapons of the player: a plain one, a piercing one that slows, and a
\* lethal one that chains.
Weapons ==
  {ProjectileOptions(Absent, 0, <<>>, 0)}
  \cup {ProjectileOptions(Absent, k, <<Effect("slow", EffectDuration, 4, 0)>>, 0) :
          k \in 1..MaxPierce}
  \cup {ProjectileOptions(MaxAmount, 0, <<>>, 1)}

\* WeaponController.spawnProjectile: a weapon of the player fires; a weapon
\* may name a projectile type that is not registered, and aim nowhere.
\* last.count tells whether the type is registered, last.amount the
\* direction.
PlayerShot(weapons) ==
  \E options \in weapons, aim \in {<<"playerBullet", 1>>, <<"playerBullet", 0>>,
                                   <<"laser", 1>>} :
    /\ em.player # 0
    /\ LET s == Spawn(pm, em, aim[1], Centre(em.ent[em.player]), aim[2], em.player,
                      [isPlayerProjectile |-> TRUE, isEnemyProjectile |-> FALSE],
                      options) IN
       /\ Lands(Flying(World(em, cs), s.pm, tm))
       /\ UNCHANGED wc
       /\ last' = [Idle EXCEPT !.op = "spawn", !.target = em.player,
                               !.count = IF aim[1] \in ProjectileKeys THEN 1 ELSE 0,
                               !.amount = aim[2], !.result = s.ref # 0]

DoPlayerShot == PlayerShot(Weapons)

\* Game.handleEnemyAttack: a ranged enemy (the Tank stands for one) spits
\* towards the player.
DoEnemyShot ==
  \E t \in Range(em.enemies) :
    /\ em.ent[t].enemyType = "Tank"
    /\ LET s == Spawn(pm, em, "enemySpit", Centre(em.ent[t]), -1, t,
                      [isPlayerProjectile |-> FALSE, isEnemyProjectile |-> TRUE],
                      [ProjectileOptions(Absent, Absent, <<>>, Absent)
                         EXCEPT !.sizeScale = 34]) IN
       /\ Lands(Flying(World(em, cs), s.pm, tm))
       /\ UNCHANGED wc
       /\ last' = [Idle EXCEPT !.op = "spawn", !.target = t, !.count = 1,
                               !.amount = -1, !.result = s.ref # 0]

DoProjectileUpdate ==
  \E dt \in 1..MaxDt :
    LET S == ProjectileUpdate(Flying(World(em, cs), pm, tm), dt) IN
    /\ Lands(S)
    /\ UNCHANGED wc
    /\ last' = [Idle EXCEPT !.op = "projectileUpdate", !.amount = dt,
                            !.dmgCalls = S.w.dmgCalls, !.killCalls = S.w.killCalls]

NextProjectiles ==
  \/ DoPlayerShot
  \/ DoEnemyShot
  \/ DoProjectileUpdate

SpecProjectiles == InitProjectiles /\ [][NextProjectiles]_vars

\* SpecShots: the player alone in the store fires the plain weapon, with
\* every aim, and the projectiles fly until their lifetime ends.
InitShots ==
  /\ em = CreateEntity(EmptyManager, NewPlayer)
  /\ cs = NewCombat
  /\ sc = NewSpawnController(DefaultMaxEnemies, 3 * TileSize)
  /\ wm = NoWaves
  /\ \E config \in ProjectileConfigs : pm = NewProjectileManager(config)
  /\ tm = NoTileMap
  /\ wc = NewWeaponController
  /\ last = Idle

DoPlainShot == PlayerShot({ProjectileOptions(Absent, 0, <<>>, 0)})

NextShots ==
  \/ DoPlainShot
  \/ DoProjectileUpdate

SpecShots == InitShots /\ [][NextShots]_vars

\* SpecChains: the player fires the chain weapon, with and without pierce
\* upgrades, at the enemies crowding it.
ChainWeaponMaxChains == 2   \* weaponRegistry: maxChains of the chain weapon

ChainWeapons ==
  {ProjectileOptions(Absent, k, <<>>, ChainWeaponMaxChains) : k \in 0..(MaxPierce + 1)}

\* Two SmallChasers stand at the player and a Tank two tiles away, within
\* the range of a chain and out of the reach of a shot.
ChainStore ==
  LET m1 == CreateEntity(EmptyManager, NewPlayer)
      m2 == SpawnOne(m1, Registry[1], 0)
      m3 == SpawnOne(m2, Registry[1], 2)
  IN SpawnOne(m3, Registry[2], 2 * TileSize)

InitChains ==
  /\ em = ChainStore
  /\ cs = NewCombat
  /\ sc = NewSpawnController(DefaultMaxEnemies, 3 * TileSize)
  /\ wm = NoWaves
  /\ \E config \in ProjectileConfigs : pm = NewProjectileManager(config)
  /\ tm = NoTileMap
  /\ wc = NewWeaponController
  /\ last = Idle

DoChainShot == PlayerShot(ChainWeapons)

NextChains ==
  \/ DoChainShot
  \/ DoProjectileUpdate

SpecChains == InitChains /\ [][NextChains]_vars

-----------------------------------------------------------------------------
(* Specification SpecTiles: the operations of a tile map on walls, on a    *)
(* small grid, at every position in and around it.                         *)

\* Bound: the largest hit points a destructible wall is given.
MaxHitPoints == 3

\* hitPoints of setWallTile: small ones, and one a Uint8 durability of 200
\* comes from.
WallHitPoints == {1, MaxHitPoints, IndestructibleDurability}

\* A grid of two tiles side by side.
SmallMap == NewTileMap(2, 1, TileSize)

InitTiles ==
  /\ em = EmptyManager
  /\ cs = NewCombat
  /\ sc = NewSpawnController(DefaultMaxEnemies, 3 * TileSize)
  /\ wm = NoWaves
  /\ pm = NoProjectiles
  /\ tm = SmallMap
  /\ wc = NewWeaponController
  /\ last = Idle

\* The positions of the map t and those next to its four edges.
Around(t) ==
  {<<x, y>> \in (-1..t.width) \X (-1..t.height) :
     (0 <= x /\ x < t.width) \/ (0 <= y /\ y < t.height)}

\* The tile at (x, y) when the operation began, a blank one out of bounds.
TileAt(t, x, y) == IF InBounds(t, x, y) THEN GetTile(t, x, y) ELSE BlankTile

DoSetTile ==
  \E pos \in Around(tm), base \in {Floor, Wall} :
    /\ tm' = SetTile(tm, pos[1], pos[2], base)
    /\ UNCHANGED wc
    /\ last' = [Idle EXCEPT !.op = "setTile"]
    /\ UNCHANGED <<em, cs, sc, wm, pm>>

DoSetWallTile ==
  \E pos \in Around(tm), hitPoints \in WallHitPoints, indestructible \in BOOLEAN :
    /\ tm' = SetWallTile(tm, pos[1], pos[2], hitPoints, indestructible)
    /\ UNCHANGED wc
    /\ last' = [Idle EXCEPT !.op = "setWallTile"]
    /\ UNCHANGED <<em, cs, sc, wm, pm>>

\* damageWallTile at one of the positions with one of the amounts; an
\* amount below 0 heals, and healing stops at MaxHitPoints.
DamageAt(positions, amounts) ==
  \E pos \in positions, amount \in amounts :
    LET x == pos[1]
        y == pos[2]
        d == DamageWallTile(tm, x, y, amount) IN
    /\ amount < 0 => TileAt(tm, x, y).hp - amount <= MaxHitPoints
    /\ tm' = d.tm
    /\ UNCHANGED wc
    /\ last' = [Idle EXCEPT !.op = "damageWallTile", !.x = x, !.y = y,
                            !.amount = amount, !.result = d.destroyed,
                            !.before = TileAt(tm, x, y)]
    /\ UNCHANGED <<em, cs, sc, wm, pm>>

\* Amounts that heal, do nothing, wound or overkill.
DoDamageWallTile == DamageAt(Around(tm), -1..(MaxHitPoints + 1))

NextTiles ==
  \/ DoSetTile
  \/ DoSetWallTile
  \/ DoDamageWallTile

SpecTiles == InitTiles /\ [][NextTiles]_vars

-----------------------------------------------------------------------------
(* Specification SpecWalls: the player shoots at the tile next to its own, *)
(* which is floor or a wall of one kind or another, and the wall is also   *)
(* damaged directly.  The projectile manager has the tile map set.         *)

\* The player stands in the first tile, close enough to the second that a
\* projectile is over it after one update.
WallStore == CreateEntity(EmptyManager, [NewPlayer EXCEPT !.x = 4])

\* The second tile: floor, a wall of 1 hit point or of MaxHitPoints, a wall
\* made indestructible, and a wall given 200 hit points.
WallMaps ==
  LET ground == SetTile(SetTile(SmallMap, 0, 0, Floor), 1, 0, Floor) IN
  {ground, SetWallTile(ground, 1, 0, 1, TRUE)}
  \cup {SetWallTile(ground, 1, 0, hitPoints, FALSE) : hitPoints \in WallHitPoints}

InitWalls ==
  /\ em = WallStore
  /\ cs = NewCombat
  /\ sc = NewSpawnController(DefaultMaxEnemies, 3 * TileSize)
  /\ wm = NoWaves
  /\ pm = NewProjectileManager(ProjectileConfig(2, 2, TRUE, TRUE))
  /\ tm \in WallMaps
  /\ wc = NewWeaponController
  /\ last = Idle

\* The plain weapon of the player fires at the second tile.
DoWallShot ==
  /\ em.player # 0
  /\ LET s == Spawn(pm, em, "playerBullet", Centre(em.ent[em.player]), 1, em.player,
                    [isPlayerProjectile |-> TRUE, isEnemyProjectile |-> FALSE],
                    ProjectileOptions(Absent, 0, <<>>, 0)) IN
     /\ Lands(Flying(World(em, cs), s.pm, tm))
     /\ UNCHANGED wc
     /\ last' = [Idle EXCEPT !.op = "spawn", !.target = em.player, !.count = 1,
                             !.amount = 1, !.result = s.ref # 0]

\* The second tile is damaged directly.
DoStrikeWall == DamageAt({<<1, 0>>}, {-1, 1, MaxHitPoints + 1})

NextWalls ==
  \/ DoWallShot
  \/ DoProjectileUpdate
  \/ DoStrikeWall

SpecWalls == InitWalls /\ [][NextWalls]_vars

\* SpecWallHits: the player and a SmallChaser beside it both shoot at the
\* second tile, so that projectiles of either owner meet walls of each kind.
WallHitStore == SpawnOne(WallStore, Registry[1], 4)

InitWallHits ==
  /\ em = WallHitStore
  /\ cs = NewCombat
  /\ sc = NewSpawnController(DefaultMaxEnemies, 3 * TileSize)
  /\ wm = NoWaves
  /\ pm = NewProjectileManager(ProjectileConfig(2, 2, TRUE, TRUE))
  /\ tm \in WallMaps
  /\ wc = NewWeaponController
  /\ last = Idle

\* Game.handleEnemyAttack: the enemy spits at the second tile.
DoWallSpit ==
  \E t \in Range(em.enemies) :
    LET s == Spawn(pm, em, "enemySpit", Centre(em.ent[t]), 1, t,
                   [isPlayerProjectile |-> FALSE, isEnemyProjectile |-> TRUE],
                   [ProjectileOptions(Absent, Absent, <<>>, Absent)
                      EXCEPT !.sizeScale = 34]) IN
    /\ Lands(Flying(World(em, cs), s.pm, tm))
    /\ UNCHANGED wc
    /\ last' = [Idle EXCEPT !.op = "spawn", !.target = t, !.count = 1,
                            !.amount = 1, !.result = s.ref # 0]

NextWallHits ==
  \/ DoWallShot
  \/ DoWallSpit
  \/ DoProjectileUpdate

SpecWallHits == InitWallHits /\ [][NextWallHits]_vars

\* SpecRecycle: the player, with a SmallChaser beside it, fires a plain
\* weapon and a weapon whose options are all set at the second tile; the
\* records come back by expiry, by a wall, by a hit and by eviction at the
\* cap, and are spawned again.  last.options holds the options of the call.
RecycleWeapons ==
  {ProjectileOptions(Absent, 0, <<>>, 0),
   [ProjectileOptions(Absent, 1, <<Effect("slow", EffectDuration, 4, 0)>>, 1)
      EXCEPT !.color = 1, !.chainRange = 5 * TileSize]}

InitRecycle ==
  /\ em = WallHitStore
  /\ cs = NewCombat
  /\ sc = NewSpawnController(DefaultMaxEnemies, 3 * TileSize)
  /\ wm = NoWaves
  /\ \E poolSize \in 2..3 :
       pm = NewProjectileManager(ProjectileConfig(poolSize, 2, TRUE, TRUE))
  /\ tm \in WallMaps
  /\ wc = NewWeaponController
  /\ last = Idle

DoRecycleShot ==
  \E options \in RecycleWeapons :
    /\ em.player # 0
    /\ LET s == Spawn(pm, em, "playerBullet", Centre(em.ent[em.player]), 1, em.player,
                      [isPlayerProjectile |-> TRUE, isEnemyProjectile |-> FALSE],
                      options) IN
       /\ Lands(Flying(World(em, cs), s.pm, tm))
       /\ UNCHANGED wc
       /\ last' = [Idle EXCEPT !.op = "spawn", !.target = em.player, !.count = 1,
                               !.amount = 1, !.result = s.ref # 0,
                               !.options = options]

NextRecycle ==
  \/ DoRecycleShot
  \/ DoProjectileUpdate

SpecRecycle == InitRecycle /\ [][NextRecycle]_vars

-----------------------------------------------------------------------------
(* Specification SpecStore: the entity store under the operations that     *)
(* remove entities from it: the enemies walk up to the player and strike   *)
(* it (EntityManager.update with the game's attack callback), the player   *)
(* fires a piercing weapon whose hits kill (ProjectileManager.update), and *)
(* the game removes and creates entities directly.                         *)

\* The frames of the shortest update step of the store.
FramesPerStep == 20

\* The player, with a SmallChaser and a Tank that have reached it (at the
\* place of the player an enemy stands still), and a pickup that was
\* dropped last; the invulnerability of the player has run out
\* (HealthComponent.update over its frames).
StoreEntities ==
  LET m1 == CreateEntity(EmptyManager, NewPlayer)
      m2 == SpawnOne(m1, Registry[1], 0)
      m3 == SpawnOne(m2, Registry[2], 0)
      m4 == CreateEntity(m3, NewPickup)
  IN [m4 EXCEPT !.ent[m4.player] = HealthUpdate(@, PlayerInvulnFrames)]

\* A weapon that kills a SmallChaser with a hit and pierces.
StoreWeapons == {ProjectileOptions(EnemyHealth, MaxPierce, <<>>, 0)}

InitStore ==
  /\ em = StoreEntities
  /\ cs = NewCombat
  /\ sc = NewSpawnController(DefaultMaxEnemies, 3 * TileSize)
  /\ wm = NoWaves
  /\ pm = NewProjectileManager(ProjectileConfig(1, 1, TRUE, FALSE))
  /\ tm = NoTileMap
  /\ wc = NewWeaponController
  /\ last = Idle

\* EntityManager.update(dt), which the ticker calls until the player has
\* died (handlePlayerDeath pauses the game); last.turns lists the entities
\* the pass has handled.
DoEntityUpdate ==
  \E k \in 1..MaxDt :
    LET r == EntityUpdate(Flying(World(em, cs), pm, tm), k * FramesPerStep) IN
    /\ em.player # 0
    /\ Lands(r.s)
    /\ UNCHANGED wc
    /\ last' = [Idle EXCEPT !.op = "entityUpdate", !.amount = k * FramesPerStep,
                            !.turns = r.turns,
                            !.dmgCalls = r.s.w.dmgCalls,
                            !.killCalls = r.s.w.killCalls]

DoStoreShot == PlayerShot(StoreWeapons)

\* removeEntity called by the game (collectPickups for a pickup, the wave
\* manager for an enemy), for an entity of the store or once more for one
\* that has left it.
DoRemoveEntity ==
  \E t \in 1..Len(em.ent) :
    /\ em.ent[t].type # "player"
    /\ em' = RemoveEntity(em, t)
    /\ UNCHANGED wc
    /\ last' = [Idle EXCEPT !.op = "removeEntity", !.target = t]
    /\ UNCHANGED <<cs, sc, wm, pm, tm>>

NextStore ==
  \/ DoEntityUpdate
  \/ DoStoreShot
  \/ DoProjectileUpdate
  \/ DoRemoveEntity

SpecStore == InitStore /\ [][NextStore]_vars

-----------------------------------------------------------------------------
(* Specification SpecTick: the simulation step of the game (the ticker     *)
(* callback of part_000, lines 370-440) on the core: the weapon of the     *)
(* player may fire, then the wave manager, the entity store, the           *)
(* projectile manager and the combat system are updated with the dt of the *)
(* step.  The store holds the player and a SmallChaser standing at it; a   *)
(* wave of one second is running, which can pay for two more SmallChasers  *)
(* where the spawn controller has room for one.  The spawn controller has  *)
(* no interval spawns (spawnIntervalMs 0), the player no health regen, and *)
(* the pickups that the game drops and collects are not followed.          *)

\* The number of steps followed (last.count counts them).
MaxTicks == 5

\* The weapon of the player: a hit takes 1 health and slows.
TickWeapon == ProjectileOptions(1, 0, <<Effect("slow", EffectDuration, 4, 0)>>, 0)

TickWave ==
  WaveDefinition(TicksPerSecond, 2, CostOf("SmallChaser", 1), Mix("SmallChaser"), <<>>)

TickStore ==
  SpawnOne(CreateEntity(EmptyManager, NewPlayer), Registry[1], 0)

\* The game after setup: waveManager.start() has begun the wave.
InitTick ==
  /\ LET V == WaveStart(Stage(TickStore, NewSpawnController(2, TileSize),
                              NewWaveManager(WaveOptions(<<TickWave>>, <<>>, 0,
                                                         FALSE, FALSE)))) IN
     em = V.em /\ sc = V.sc /\ wm = V.wm
  /\ cs = NewCombat
  /\ pm = NewProjectileManager(ProjectileConfig(2, 2, TRUE, FALSE))
  /\ tm = NoTileMap
  /\ wc = NewWeaponController
  /\ last = Idle

\* weaponController.update: the weapon fires the shots (none or one) along
\* the line, from the centre of the player.
Fired(shots) ==
  IF shots = <<>> THEN pm
  ELSE Spawn(pm, em, "playerBullet", Centre(em.ent[em.player]), 1, em.player,
             [isPlayerProjectile |-> TRUE, isEnemyProjectile |-> FALSE],
             shots[1]).pm

\* entityManager.update(dt), after waveManager.update has left the stage V
\* and the weapon the projectiles p.
AfterWave(V, p, dt) ==
  [r |-> EntityUpdate(Flying(World(V.em, cs), p, tm), dt), sc |-> V.sc, wm |-> V.wm]

\* The first half of the step: weaponController.update, waveManager.update,
\* entityManager.update.
Opening(dt, shots, rnd, x) ==
  AfterWave(WaveUpdate(Stage(em, sc, wm), dt, rnd, x), Fired(shots), dt)

\* The second half of the step: projectileManager.update(dt), then
\* combatSystem.update(dt).
Decayed(P, dt) == [P EXCEPT !.w = CombatUpdate(P.w, dt)]
ResolveMut(S, dt) == ProjectileUpdate(S, dt)
Resolve(S, dt) == Decayed(ProjectileUpdate(S, dt), dt)

\* The step has led from the opening o to the flying state S.
Settles(o, S, dt, shots) ==
  /\ S.pm.nextId <= MaxProjectileIds + 1
  /\ em' = S.w.em
  /\ cs' = S.w.cs
  /\ pm' = S.pm
  /\ tm' = S.tm
  /\ sc' = o.sc
  /\ wm' = o.wm
  /\ UNCHANGED wc
  /\ last' = [Idle EXCEPT !.op = "tick", !.amount = dt, !.options = shots,
                          !.count = last.count + 1, !.turns = o.r.turns,
                          !.dmgCalls = S.w.dmgCalls, !.killCalls = S.w.killCalls]

Closes(o, dt, shots) == Settles(o, Resolve(o.r.s, dt), dt, shots)

\* The simulation block of the ticker callback; the game is paused once
\* the player has died.
DoTick ==
  \E dt \in 1..MaxDt, shots \in {<<>>, <<TickWeapon>>}, rnd \in Randoms,
     x \in SpawnXs(sc) :
    /\ em.player # 0
    /\ last.count < MaxTicks
    /\ Closes(Opening(dt, shots, rnd, x), dt, shots)

NextTick == DoTick

SpecTick == InitTick /\ [][NextTick]_vars

-----------------------------------------------------------------------------
(* Specification SpecAttack: a SmallChaser and a Tank chase a player that  *)
(* steps between places in and out of their reach, over update passes of   *)
(* different lengths.                                                      *)

\* The number of update passes that are followed.
MaxAttackTicks == 5

\* The frames of a pass: less than a cooldown and more than a lock, and
\* more than the cooldown of a SmallChaser.
AttackSteps == {15, 40}

\* The places the player steps to: the start of the enemies, out of the
\* reach of a SmallChaser at the start but within that of a Tank, and out
\* of the sight of a SmallChaser at the start but within that of a Tank.
PlayerPlaces == {0, 14, 230}

\* What is known of the attacks of an enemy: n attacks so far, the last of
\* them t frames of update ago.
NoAttacks == [n |-> 0, t |-> 0]

InitAttack ==
  /\ em = SpawnOne(SpawnOne(CreateEntity(EmptyManager, NewPlayer), Registry[1], 0),
                   Registry[2], 0)
  /\ cs = NewCombat
  /\ sc = NewSpawnController(DefaultMaxEnemies, 3 * TileSize)
  /\ wm = NoWaves
  /\ pm = NoProjectiles
  /\ tm = NoTileMap
  /\ wc = NewWeaponController
  /\ last = [Idle EXCEPT !.since = [id \in 1..3 |-> NoAttacks]]

\* The attacks of every entity after a pass of dt frames in which the
\* attack handler was called for the entities of the list attacks.
Elapsed(since, attacks, dt) ==
  [id \in DOMAIN since |->
     IF id \in Range(attacks) THEN [n |-> since[id].n + 1, t |-> 0]
     ELSE [since[id] EXCEPT !.t = @ + dt]]

\* EntityManager.update(dt) of the ticker.
DoAttackUpdate ==
  \E dt \in AttackSteps :
    LET r == EntityUpdate(Flying(World(em, cs), pm, tm), dt) IN
    /\ em.player # 0
    /\ last.count < MaxAttackTicks
    /\ em' = r.s.w.em
    /\ cs' = r.s.w.cs
    /\ UNCHANGED wc
    /\ last' = [last EXCEPT !.op = "entityUpdate", !.amount = dt,
                            !.count = @ + 1, !.turns = r.turns,
                            !.since = Elapsed(@, r.s.w.attacks, dt)]
    /\ UNCHANGED <<sc, wm, pm, tm>>

\* The player walks (the input moves its transform between the passes).
DoPlayerStep ==
  \E x \in PlayerPlaces :
    /\ em.player # 0
    /\ em.ent[em.player].x # x
    /\ em' = [em EXCEPT !.ent[em.player].x = x]
    /\ UNCHANGED wc
    /\ last' = [last EXCEPT !.op = "playerStep", !.amount = x]
    /\ UNCHANGED <<cs, sc, wm, pm, tm>>

NextAttack ==
  \/ DoAttackUpdate
  \/ DoPlayerStep

SpecAttack == InitAttack /\ [][NextAttack]_vars

-----------------------------------------------------------------------------
(* Specification SpecPlace: spawnEnemyType("SmallChaser", 1) on a row of   *)
(* three tiles, followed draw by draw through pickSpawnPosition: each      *)
(* step is one position drawn from Math.random by pickRandomWorldPosition, *)
(* pickAroundPlayerPosition or the loop of pickTilePosition.               *)

PlaceAttempts == 20   \* const maxAttempts = 20
PlaceWidth == 3       \* the tiles of the row
MaxRounds == 2        \* the exhausted tile searches of a call that are followed
PlaceRadius == 10     \* spawnRadiusMin = spawnRadiusMax, in pixels

\* The rows: all floor; a wall in the middle; all floor with setBlocked
\* called for the middle tile; all walls; floor only at the far end.
PlaceMaps ==
  LET row == SetTiles(NewTileMap(PlaceWidth, 1, TileSize),
                      {<<x, 0>> : x \in 0..(PlaceWidth - 1)}, Floor)
  IN {row,
      SetWallTile(row, 1, 0, BlobHitPoints, FALSE),
      SetBlocked(row, 1, 0, TRUE),
      SetWallTiles(row, {<<x, 0>> : x \in 0..(PlaceWidth - 1)}, BlobHitPoints, FALSE),
      SetWallTiles(row, {<<0, 0>>, <<1, 0>>}, BlobHitPoints, FALSE)}

\* The call of spawnOne: not running (pc "idle") or about to draw in
\* pickRandomWorldPosition ("world"), pickAroundPlayerPosition ("around")
\* or attempt i of pickTilePosition ("tile"); the positions it has drawn so
\* far and the tile searches it has exhausted.
NoPick == [pc |-> "idle", i |-> 0, tileDraws |-> 0, worldDraws |-> 0, rounds |-> 0]

\* The controller with its spawn mode and the call it is in.
Placer(c, mode) ==
  [maxEnemies |-> c.maxEnemies, worldWidth |-> c.worldWidth,
   spawnCount |-> c.spawnCount, spawnMode |-> mode, pick |-> NoPick]

InitPlace ==
  /\ \E x \in {0, TileSize, 2 * TileSize + TileSize \div 2} :
       em = CreateEntity(EmptyManager, [NewPlayer EXCEPT !.x = x])
  /\ cs = NewCombat
  /\ \E mode \in {"world", "around-player", "tile"} :
       sc = Placer(NewSpawnController(2, PlaceWidth * TileSize), mode)
  /\ wm = NoWaves
  /\ pm = NoProjectiles
  /\ tm \in PlaceMaps
  /\ wc = NewWeaponController
  /\ last = Idle

\* pickSpawnPosition: the function that draws first.
FirstDraw(c, m, t) ==
  IF c.spawnMode = "around-player"
  THEN IF m.player = 0 \/ ~m.ent[m.player].hasTransform THEN "world" ELSE "around"
  ELSE IF c.spawnMode = "tile"
  THEN IF t.built THEN "tile" ELSE "world"
  ELSE "world"

\* spawnEnemyType("SmallChaser", 1) up to the call of pickSpawnPosition.
DoPlaceCall ==
  /\ sc.pick.pc = "idle"
  /\ ToSpawn(sc, em, 1) > 0
  /\ sc' = [sc EXCEPT !.pick = [NoPick EXCEPT !.pc = FirstDraw(sc, em, tm)]]
  /\ UNCHANGED wc
  /\ last' = [Idle EXCEPT !.op = "spawnEnemyType", !.target = "SmallChaser"]
  /\ UNCHANGED <<em, cs, wm, pm, tm>>

\* The rest of spawnOne and of spawnEnemyType once the position is x.
Placed(x) ==
  /\ em' = SpawnOne(em, TypeConfig("SmallChaser"), x)
  /\ sc' = [sc EXCEPT !.spawnCount = @ + 1, !.pick.pc = "idle"]
  /\ UNCHANGED wc
  /\ last' = [Idle EXCEPT !.op = "spawned", !.x = x, !.count = 1]

\* The test of the tile of a drawn position (lines 394-400, 415-421): an
\* unwalkable tile sends the call to pickTilePosition.
Redirected(c) == [c EXCEPT !.pick.pc = "tile", !.pick.i = 0]

\* pickRandomWorldPosition: x below worldWidth - tileSize, y = 0 in a row.
DoWorldDraw ==
  \E x \in {v \in 0..(sc.worldWidth - TileSize - 1) : v % (TileSize \div 2) = 0} :
    LET c == [sc EXCEPT !.pick.worldDraws = @ + 1] IN
    /\ sc.pick.pc = "world"
    /\ IF tm.built /\ ~IsWalkable(tm, x \div TileSize, 0)
       THEN /\ sc' = Redirected(c)
            /\ UNCHANGED wc
            /\ last' = [Idle EXCEPT !.op = "worldDraw", !.x = x]
            /\ UNCHANGED em
       ELSE Placed(x)
    /\ UNCHANGED <<cs, wm, pm, tm>>

\* pickAroundPlayerPosition: the angle is 0, a quarter turn or a half turn.
DoAroundDraw ==
  \E d \in {<<PlaceRadius, 0>>, <<0, PlaceRadius>>, <<0 - PlaceRadius, 0>>} :
    LET x == em.ent[em.player].x + d[1]
        y == d[2] IN
    /\ sc.pick.pc = "around"
    /\ IF tm.built /\ ~IsWalkable(tm, x \div TileSize, y \div TileSize)
       THEN /\ sc' = Redirected(sc)
            /\ UNCHANGED wc
            /\ last' = [Idle EXCEPT !.op = "aroundDraw", !.x = x, !.y = y]
            /\ UNCHANGED em
       ELSE Placed(Max(0, Min(sc.worldWidth - TileSize, x)))
    /\ UNCHANGED <<cs, wm, pm, tm>>

\* One pass of the loop of pickTilePosition; after the last pass the call
\* goes on in pickRandomWorldPosition (line 439).
DoTileDraw ==
  \E tx \in 0..(tm.width - 1) :
    LET c == [sc EXCEPT !.pick.tileDraws = @ + 1] IN
    /\ sc.pick.pc = "tile"
    /\ sc.pick.rounds < MaxRounds
    /\ IF IsWalkable(tm, tx, 0) THEN Placed(tx * TileSize)
       ELSE /\ sc' = IF sc.pick.i + 1 < PlaceAttempts
                     THEN [c EXCEPT !.pick.i = @ + 1]
                     ELSE [c EXCEPT !.pick.pc = "world", !.pick.rounds = @ + 1]
            /\ UNCHANGED wc
            /\ last' = [Idle EXCEPT !.op = "tileDraw", !.x = tx]
            /\ UNCHANGED em
    /\ UNCHANGED <<cs, wm, pm, tm>>

NextPlace ==
  \/ DoPlaceCall
  \/ DoWorldDraw
  \/ DoAroundDraw
  \/ DoTileDraw

SpecPlace == InitPlace /\ [][NextPlace]_vars

-----------------------------------------------------------------------------
(* Specification SpecPool: the player fires plain and chaining shots to    *)
(* either side while two SmallChasers approach from the right; the pool is *)
(* as large as the cap, as the game builds it, and the oldest projectile   *)
(* is recycled at the cap.                                                 *)

\* The SmallChasers stand within the reach of a shot that has flown one
\* step to the right, and out of the reach of one that has flown to the
\* left.
PoolStore ==
  LET m1 == CreateEntity(EmptyManager, NewPlayer)
      m2 == SpawnOne(m1, Registry[1], TileSize - 2)
  IN SpawnOne(m2, Registry[1], TileSize)

\* A plain weapon, a piercing one and one that chains once.
PoolWeapons ==
  {ProjectileOptions(Absent, k, <<>>, c) : k \in 0..MaxPierce, c \in 0..1}

InitPool ==
  /\ em = PoolStore
  /\ cs = NewCombat
  /\ sc = NewSpawnController(DefaultMaxEnemies, 3 * TileSize)
  /\ wm = NoWaves
  /\ \E poolSize \in 2..3 :
       pm = NewProjectileManager(ProjectileConfig(poolSize, poolSize, TRUE, TRUE))
  /\ tm = NoTileMap
  /\ wc = NewWeaponController
  /\ last = Idle

\* WeaponController.spawnProjectile with the aim to the right or the left.
DoPoolShot ==
  \E options \in PoolWeapons, dirX \in {1, -1} :
    /\ em.player # 0
    /\ LET s == Spawn(pm, em, "playerBullet", Centre(em.ent[em.player]), dirX,
                      em.player,
                      [isPlayerProjectile |-> TRUE, isEnemyProjectile |-> FALSE],
                      options) IN
       /\ Lands(Flying(World(em, cs), s.pm, tm))
       /\ UNCHANGED wc
       /\ last' = [Idle EXCEPT !.op = "spawn", !.target = em.player,
                               !.amount = dirX, !.result = s.ref # 0]

NextPool ==
  \/ DoPoolShot
  \/ DoProjectileUpdate

SpecPool == InitPool /\ [][NextPool]_vars

-----------------------------------------------------------------------------
(* Specification SpecSlow: status effects of every type are put on a       *)
(* SmallChaser and a Tank, one or two at a time, on top of those that are  *)
(* still running and after they have run out, between the ticks of         *)
(* CombatSystem.update.                                                    *)

SlowStore == SpawnOne(SpawnOne(EmptyManager, Registry[1], 0), Registry[2], TileSize)

\* Slows of 40% and of 100%, long and short, a freeze, a stun and a poison.
SlowKinds ==
  {Effect("slow", d, p, 0) : d \in {1, EffectDuration}, p \in {4, 10}}
  \cup {Effect("freeze", MaxDt, 0, 0), Effect("stun", 1, 0, 0),
        Effect("poison", EffectDuration, 0, 1)}

InitSlow ==
  /\ em = SlowStore
  /\ cs = NewCombat
  /\ sc = NewSpawnController(2, TileSize)
  /\ wm = NoWaves
  /\ pm = NoProjectiles
  /\ tm = NoTileMap
  /\ wc = NewWeaponController
  /\ last = Idle

\* applyStatusEffects(target, effects) for the effects of a projectile hit.
DoApplyEffects ==
  \E t \in Range(em.enemies), first \in SlowKinds,
     more \in {<<>>} \cup {<<eff>> : eff \in SlowKinds} :
    /\ em.ent[t].active
    /\ EffectCount(cs) + 1 + Len(more) <= MaxEffects
    /\ LET W == ApplyStatusEffects(World(em, cs), t, <<first>> \o more) IN
       /\ em' = W.em
       /\ cs' = W.cs
    /\ UNCHANGED wc
    /\ last' = [Idle EXCEPT !.op = "applyStatusEffects", !.target = t]
    /\ UNCHANGED <<sc, wm, pm, tm>>

\* CombatSystem.update(dt); last.turns keeps the speeds the entities had
\* before the tick.
DoSlowUpdate ==
  \E dt \in 1..MaxDt :
    LET W == CombatUpdate(World(em, cs), dt) IN
    /\ em' = W.em
    /\ cs' = W.cs
    /\ UNCHANGED wc
    /\ last' = [Idle EXCEPT !.op = "update", !.amount = dt,
                            !.turns = [i \in 1..Len(em.ent) |-> em.ent[i].speed]]
    /\ UNCHANGED <<sc, wm, pm, tm>>

NextSlow ==
  \/ DoApplyEffects
  \/ DoSlowUpdate

SpecSlow == InitSlow /\ [][NextSlow]_vars

\* SpecHits: the second tile is made a wall with setWallTile(x, y, h, false)
\* and then hit with damageWallTile(x, y, 1) until it falls or has been hit
\* h times.
\* last.amount is h, last.count the hits since the wall was made.

\* hitPoints given: small ones, the values on either side of the durability
\* that is treated as indestructible, one a Uint8 does not hold and one an
\* Int16 does not hold.
HitPointsGiven ==
  {1, MaxHitPoints, IndestructibleDurability - 1, IndestructibleDurability,
   256, Int16Max + 1}

InitHits ==
  /\ em = EmptyManager
  /\ cs = NewCombat
  /\ sc = NewSpawnController(DefaultMaxEnemies, 3 * TileSize)
  /\ wm = NoWaves
  /\ pm = NoProjectiles
  /\ tm = SetTile(SetTile(SmallMap, 0, 0, Floor), 1, 0, Floor)
  /\ wc = NewWeaponController
  /\ last = Idle

DoBuildWall ==
  \E hitPoints \in HitPointsGiven :
    /\ tm' = SetWallTile(tm, 1, 0, hitPoints, FALSE)
    /\ UNCHANGED wc
    /\ last' = [Idle EXCEPT !.op = "setWallTile", !.x = 1, !.amount = hitPoints]
    /\ UNCHANGED <<em, cs, sc, wm, pm>>

DoHitWall ==
  /\ last.op \in {"setWallTile", "damageWallTile"}
  /\ GetTile(tm, last.x, 0).base = Wall
  /\ last.count < last.amount
  /\ LET d == DamageWallTile(tm, last.x, 0, 1) IN
     /\ tm' = d.tm
     /\ UNCHANGED wc
     /\ last' = [last EXCEPT !.op = "damageWallTile", !.count = @ + 1,
                             !.result = d.destroyed,
                             !.before = GetTile(tm, last.x, 0)]
  /\ UNCHANGED <<em, cs, sc, wm, pm>>

NextHits ==
  \/ DoBuildWall
  \/ DoHitWall

SpecHits == InitHits /\ [][NextHits]_vars

\* SpecBlobs: the loop of scatterBlobs, round by round, in the first attempt
\* of generate on a new map of 5 by 5 or 7 by 7 tiles.  last.map keeps the
\* configuration and the locals of the loop: rng, i, painted and
\* blobTargetCount; last.op is "scatterBlobs" when the loop is entered,
\* "paintBlob" after a round and "scattered" when the loop has ended.

\* Bound: the rounds of the loop that are followed.
MaxBlobs == 8

\* Configurations with one or two blobs of radius 1 (and of radius 0 or 1),
\* and a target of none, a tenth, a half or all of the tiles.
BlobConfigs ==
  {[seed |-> seed, obstacleDensity |-> density, blobCountMin |-> 1, blobCountMax |-> 2,
    blobRadiusMin |-> radiusMin, blobRadiusMax |-> 1, blobEdgeJitter |-> 0,
    safeZoneRadius |-> 0, carveLoopCount |-> 0,
    requiredConnectedRatio |-> 30, maxAttempts |-> 2,
    spawn |-> [x |-> 2, y |-> 2],
    edgeJaggedThicknessMin |-> 1, edgeJaggedThicknessMax |-> 2, edgeJaggedStep |-> 1] :
     seed \in {2, 5, 17}, density \in {0, 10, 50, 100}, radiusMin \in 0..1}

InitBlobs ==
  /\ em = EmptyManager
  /\ cs = NewCombat
  /\ sc = NewSpawnController(DefaultMaxEnemies, 3 * TileSize)
  /\ wm = NoWaves
  /\ pm = NoProjectiles
  /\ tm \in {NewTileMap(5, 5, TileSize), NewTileMap(7, 7, TileSize)}
  /\ wc = NewWeaponController
  /\ last = Idle

\* generate up to the loop of scatterBlobs: paintBase, applyJaggedBorders
\* and the draw of blobTargetCount.
DoScatterBlobs ==
  \E config \in BlobConfigs :
    /\ last.op = "init"
    /\ LET G == ApplyJaggedBorders([tm |-> PaintBase(tm),
                                    rng |-> NewRng(Word(config.seed))], config)
           blobTargetCount == RngInt(G.rng, config.blobCountMin, config.blobCountMax) IN
       /\ tm' = G.tm
       /\ UNCHANGED wc
       /\ last' = [Idle EXCEPT !.op = "scatterBlobs",
                               !.map = [config |-> config, rng |-> blobTargetCount.rng,
                                        i |-> 0, painted |-> 0,
                                        blobTargetCount |-> blobTargetCount.value]]
    /\ UNCHANGED <<em, cs, sc, wm, pm>>

InBlobLoop == last.op \in {"scatterBlobs", "paintBlob"}

\* One round of the loop.
DoPaintBlob ==
  /\ InBlobLoop
  /\ BlobsWanted(tm, last.map.config, last.map.i, last.map.painted,
                 last.map.blobTargetCount)
  /\ last.map.i < MaxBlobs
  /\ LET blob == BlobRound([tm |-> tm, rng |-> last.map.rng], last.map.config) IN
     /\ tm' = blob.tm
     /\ UNCHANGED wc
     /\ last' = [last EXCEPT !.op = "paintBlob", !.count = blob.painted,
                             !.map.rng = blob.rng, !.map.i = @ + 1,
                             !.map.painted = @ + blob.painted]
  /\ UNCHANGED <<em, cs, sc, wm, pm>>

\* The condition of the loop is false: scatterBlobs returns.
DoLeaveBlobs ==
  /\ InBlobLoop
  /\ ~BlobsWanted(tm, last.map.config, last.map.i, last.map.painted,
                  last.map.blobTargetCount)
  /\ UNCHANGED wc
  /\ last' = [last EXCEPT !.op = "scattered"]
  /\ UNCHANGED <<em, cs, sc, wm, pm, tm>>

NextBlobs ==
  \/ DoScatterBlobs
  \/ DoPaintBlob
  \/ DoLeaveBlobs

SpecBlobs == InitBlobs /\ [][NextBlobs]_vars

\* SpecUpgrade: ore is picked up and weapons are equipped, swapped, removed
\* and upgraded from the weapon overlay.  last.target is the slot of the
\* call and last.result the value it returned.

\* Bounds: the ore the player holds at most, and the weapons equipped.
MaxOre == 90
MaxWeapons == 2

\* The value of an ore pickup: the cost of a first tier, and of a late one.
OreValues == {12, 60}

\* The blueprints asked for: two of the registry and one that is not in it.
BlueprintIds == {"blaster", "chain", "laser"}

InitUpgrade ==
  /\ em = EmptyManager
  /\ cs = NewCombat
  /\ sc = NewSpawnController(DefaultMaxEnemies, 3 * TileSize)
  /\ wm = NoWaves
  /\ pm = NoProjectiles
  /\ tm = NoTileMap
  /\ wc = Equip(NewWeaponController, "blaster").wc
  /\ last = Idle

Unmoved == UNCHANGED <<em, cs, sc, wm, pm, tm>>

DoAddOre ==
  \E amount \in OreValues :
    /\ wc.ore + amount <= MaxOre
    /\ wc' = AddOre(wc, amount)
    /\ last' = [Idle EXCEPT !.op = "addOre", !.amount = amount]
    /\ Unmoved

DoEquip ==
  \E blueprintId \in BlueprintIds :
    /\ Len(wc.weapons) < MaxWeapons
    /\ LET r == Equip(wc, blueprintId) IN
       /\ wc' = r.wc
       /\ last' = [Idle EXCEPT !.op = "equip", !.result = r.ok]
    /\ Unmoved

DoSwapSlots ==
  /\ wc' = SwapSlots(wc, 0, 1)
  /\ last' = [Idle EXCEPT !.op = "swapSlots"]
  /\ Unmoved

DoRemoveWeapon ==
  \E slot \in 0..(MaxWeapons - 1) :
    /\ wc' = RemoveWeapon(wc, slot)
    /\ last' = [Idle EXCEPT !.op = "remove", !.target = slot]
    /\ Unmoved

DoTryUpgrade ==
  \E slot \in -1..MaxWeapons :
    LET r == TryUpgrade(wc, slot) IN
    /\ wc' = r.wc
    /\ last' = [Idle EXCEPT !.op = "tryUpgrade", !.target = slot, !.result = r.ok]
    /\ Unmoved

NextUpgrade ==
  \/ DoAddOre
  \/ DoEquip
  \/ DoSwapSlots
  \/ DoRemoveWeapon
  \/ DoTryUpgrade

SpecUpgrade == InitUpgrade /\ [][NextUpgrade]_vars

-----------------------------------------------------------------------------
(* Specification SpecMap: the generator fills a map of 7 by 7 tiles, new   *)
(* or with walls on it from before, from one of a few configurations.      *)

\* The seeds of the configurations.
MapSeeds == {2, 5, 17, 20, 22, 24, 58, 59, 12345, 123456789}

\* The configurations: one or two blobs of radius 1, a safe zone of radius
\* 0 or 1 around the spawn tile in the middle, borders 1 or 2 thick, and
\* either two attempts at 30% or one attempt that cannot succeed.
MapConfigs ==
  {[seed |-> seed, obstacleDensity |-> 0, blobCountMin |-> 1, blobCountMax |-> 2,
    blobRadiusMin |-> 1, blobRadiusMax |-> 1, blobEdgeJitter |-> 0,
    safeZoneRadius |-> safe, carveLoopCount |-> 0,
    requiredConnectedRatio |-> goal[1], maxAttempts |-> goal[2],
    spawn |-> [x |-> 3, y |-> 3],
    edgeJaggedThicknessMin |-> 1, edgeJaggedThicknessMax |-> 2, edgeJaggedStep |-> 1] :
     seed \in MapSeeds, safe \in {0, 1}, goal \in {<<30, 2>>, <<100, 1>>}}

\* The map the game builds (new TileMap), and maps of the same size that
\* were walled before: at the spawn tile, next to it, and by an earlier run
\* of the generator.
WorldMap == NewTileMap(7, 7, TileSize)
UsedMaps ==
  {WorldMap, SetWallTile(WorldMap, 3, 3, BlobHitPoints, FALSE),
   SetWallTile(WorldMap, 2, 3, BorderHitPoints, TRUE),
   Generate(WorldMap, CHOOSE c \in MapConfigs :
                        c.seed = 5 /\ c.safeZoneRadius = 1 /\ c.maxAttempts = 2).out.tm}

InitMap ==
  /\ em = EmptyManager
  /\ cs = NewCombat
  /\ sc = NewSpawnController(DefaultMaxEnemies, 3 * TileSize)
  /\ wm = NoWaves
  /\ pm = NoProjectiles
  /\ tm \in UsedMaps
  /\ wc = NewWeaponController
  /\ last = Idle

\* The map and the record of a run of generate that returned g.
Generated(g, config) ==
  /\ tm' = g.out.tm
  /\ UNCHANGED wc
  /\ last' = [Idle EXCEPT !.op = "generate",
                          !.map = [config |-> config, seed |-> g.out.seed,
                                   fallback |-> g.out.fallback,
                                   reachable |-> g.out.reachable,
                                   walkable |-> g.out.walkable,
                                   tried |-> g.tried, attempts |-> g.attempts]]
  /\ UNCHANGED <<em, cs, sc, wm, pm>>

\* generate(tileMap, config), once on the map; last.map keeps the
\* configuration, the result and the map the last attempt left.
DoGenerate ==
  \E config \in MapConfigs :
    /\ last.op = "init"
    /\ Generated(Generate(tm, config), config)

NextMap == DoGenerate

SpecMap == InitMap /\ [][NextMap]_vars

-----------------------------------------------------------------------------
(* Properties of the combat system                                         *)

Ids == 1..Len(em.ent)
InStore(m, id) == id \in Range(m.entities)

\* The speed an entity was built with: its base speed.
BuiltSpeed(e) ==
  IF e.type = "player" THEN PlayerSpeed
  ELSE IF e.type = "enemy" THEN TypeConfig(e.enemyType).speed ELSE 0

DeadEnemies ==
  {i \in Ids : em.ent[i].type = "enemy" /\ em.ent[i].hasHealth /\ em.ent[i].current = 0}

\* C1: killCount equals the number of distinct enemy entities whose health
\* reached zero, and the entity-killed notification fired exactly once for
\* every dead entity (and never for a living one).
C1_KillAccounting ==
  /\ cs.killCount = Cardinality(DeadEnemies)
  /\ \A i \in Ids :
       em.ent[i].killedNotified =
         (IF em.ent[i].hasHealth /\ em.ent[i].current = 0 THEN 1 ELSE 0)

\* C3: for every entity with a Health component, 0 <= current <= max.
C3_HealthInRange ==
  \A i \in Ids :
    em.ent[i].hasHealth => (0 <= em.ent[i].current /\ em.ent[i].current <= em.ent[i].max)

\* C3 witness: a hit larger than the target's whole health left it at 0.
C3_Witness ==
  /\ last.op = "applyDamage" /\ last.result
  /\ last.amount > em.ent[last.target].max
  /\ em.ent[last.target].current = 0

\* C4: applyDamage on an active enemy with invulnerability timer 0, no
\* damage modifier and amount >= current > 0 returns true, leaves current at
\* 0, removes the entity from the store, deletes its status bundle and adds
\* exactly 1 to killCount.
C4_LethalHit ==
  [][ (/\ last'.op = "applyDamage"
       /\ em.ent[last'.target].type = "enemy"
       /\ em.ent[last'.target].active
       /\ em.ent[last'.target].invulnTimer = 0
       /\ cs.modifier = "none"
       /\ em.ent[last'.target].current > 0
       /\ last'.amount >= em.ent[last'.target].current)
      => (/\ last'.result
          /\ em'.ent[last'.target].current = 0
          /\ ~em'.ent[last'.target].active
          /\ ~InStore(em', last'.target)
          /\ last'.target \notin Range(em'.enemies)
          /\ ~HasBundle(cs', last'.target)
          /\ cs'.killCount = cs.killCount + 1) ]_vars

\* C4 witness: a lethal hit on an enemy has been made.
C4_Witness ==
  /\ last.op = "applyDamage" /\ last.result
  /\ em.ent[last.target].type = "enemy"
  /\ last.amount >= em.ent[last.target].max
  /\ em.ent[last.target].current = 0
  /\ cs.modifier = "none"
  /\ cs.killCount = 1

\* C5: applyDamage returns false and changes nothing, and invokes neither
\* callback, when the target has no Health component, is the player under
\* infinitePlayerHealth, or has a running invulnerability timer.
C5_BlockedIsNoOp ==
  [][ (/\ last'.op = "applyDamage"
       /\ \/ ~em.ent[last'.target].hasHealth
          \/ em.ent[last'.target].type = "player" /\ cs.flags.infinitePlayerHealth
          \/ em.ent[last'.target].invulnTimer > 0)
      => (/\ ~last'.result
          /\ em' = em
          /\ cs' = cs
          /\ last'.dmgCalls = 0
          /\ last'.killCalls = 0) ]_vars

\* C5 witness: a positive hit on the player was refused while its
\* invulnerability timer ran.
C5_Witness ==
  /\ last.op = "applyDamage" /\ ~last.result
  /\ last.amount > 0
  /\ em.ent[last.target].type = "player"
  /\ em.ent[last.target].invulnTimer > 0

\* The bundle of entity id holds exactly one effect, a slow.
OnlySlow(c, id) ==
  /\ HasBundle(c, id)
  /\ Len(BundleOf(c, id).effects) = 1
  /\ BundleOf(c, id).effects[1].type = "slow"

\* C6: for an entity whose only status effect is slow(pct = p) with
\* 0 <= p <= 1: a tick that leaves remaining > 0 leaves speed = b * (1 - p);
\* the tick in which remaining reaches 0 leaves speed = b and no bundle.
C6_SlowDecay ==
  [][ \A id \in Ids :
        (/\ last'.op = "update"
         /\ InStore(em, id) /\ em.ent[id].active
         /\ OnlySlow(cs, id))
        => LET eff == BundleOf(cs, id).effects[1]
               b == BuiltSpeed(em.ent[id])
           IN IF eff.remaining - last'.amount > 0
              THEN /\ em'.ent[id].speed * 10 = b * (10 - eff.pct)
                   /\ OnlySlow(cs', id)
              ELSE /\ em'.ent[id].speed = b
                   /\ ~HasBundle(cs', id) ]_vars

\* C6 witness: after a tick an enemy under slow(0.4) alone moves at 0.6 b.
C6_Witness ==
  /\ last.op = "update"
  /\ \E id \in Ids :
       /\ em.ent[id].type = "enemy"
       /\ OnlySlow(cs, id)
       /\ BundleOf(cs, id).effects[1].pct = 4
       /\ em.ent[id].speed * 10 = BuiltSpeed(em.ent[id]) * 6
       /\ em.ent[id].speed < BuiltSpeed(em.ent[id])

-----------------------------------------------------------------------------
(* Properties of the spawn controller and the wave manager                 *)

\* C7: with maxEnemies > 0, spawnEnemyType(type, count) for a registered
\* type creates exactly min(count, maxEnemies - currentEnemyCount) enemies
\* and returns that number (none when no capacity is left), and after every
\* step (spawnEnemyType, spawnBatch, a removal, a wave operation) the enemy
\* list is no longer than maxEnemies.
C7_SpawnCapped ==
  [][ sc.maxEnemies > 0 =>
        /\ Len(em'.enemies) <= sc'.maxEnemies
        /\ (last'.op = "spawnEnemyType" /\ last'.target \in RegisteredTypes) =>
             LET n == Min(last'.amount, sc.maxEnemies - Len(em.enemies)) IN
             /\ last'.count = n
             /\ Len(em'.enemies) = Len(em.enemies) + n
             /\ Len(em'.ent) = Len(em.ent) + n
             /\ \A i \in (Len(em.ent) + 1)..Len(em'.ent) :
                  /\ em'.ent[i].type = "enemy"
                  /\ em'.ent[i].enemyType = last'.target ]_vars

\* After wave updates, spawnEnemyType was asked for more Tanks than the
\* capacity left, created some and filled the store.
C7_Witness ==
  /\ last.op = "spawnEnemyType" /\ last.target = "Tank"
  /\ sc.maxEnemies > 0
  /\ Len(em.enemies) = sc.maxEnemies
  /\ 0 < last.count /\ last.count < last.amount
  /\ wm.ran

\* C9: a wave of budgetPerSecond 10 whose cost table and mix hold only
\* SmallChaser at cost 1, without timed events and with capacity to spare,
\* has after one second of update steps spawned 9 or 10 enemies and has a
\* budget between 0 and 1 left; and in every run of a wave whose mix is a
\* single type of cost c, spawned * c + budget = budgetPerSecond * elapsed.
SingleTypeCost(w) ==
  LET mix == CurrentWave(w).continuousSpawnMix IN
  IF Len(mix) = 1 /\ mix[1].weight > 0 /\ mix[1].type \in DOMAIN w.costs
  THEN w.costs[mix[1].type] ELSE 0
IsScenarioWave(w) ==
  /\ CurrentWave(w).budgetPerSecond = 10
  /\ w.costs = CostOf("SmallChaser", 1)
  /\ CurrentWave(w).continuousSpawnMix = Mix("SmallChaser")
  /\ CurrentWave(w).timedEvents = <<>>
SpareCapacity == sc.maxEnemies <= 0 \/ Len(em.enemies) < sc.maxEnemies
C9_BudgetAccounting ==
  wm.active =>
    /\ (IsScenarioWave(wm) /\ SpareCapacity /\ wm.elapsed = TicksPerSecond) =>
         /\ wm.spawned \in 9..10
         /\ 0 <= wm.budget /\ wm.budget <= TicksPerSecond
    /\ SingleTypeCost(wm) > 0 =>
         wm.spawned * SingleTypeCost(wm) * TicksPerSecond + wm.budget
           = CurrentWave(wm).budgetPerSecond * wm.elapsed

\* The scenario wave has run for one second and spawned ten enemies.
C9_Witness ==
  /\ wm.active /\ IsScenarioWave(wm) /\ SpareCapacity
  /\ wm.elapsed = TicksPerSecond
  /\ wm.spawned = 10 /\ Len(em.enemies) = 10

\* C10: in a run of a wave every timed event is executed at most once; it
\* has been executed exactly when an update step of the run (outside the
\* intermission) has seen elapsed >= triggerTime, so never before its
\* trigger time, in the first such step, and not again in later steps.
C10_EventsFireOnce ==
  wm.active =>
    \A i \in 1..Len(CurrentWave(wm).timedEvents) :
      /\ wm.fired[i] <= 1
      /\ wm.fired[i] = 1 <=>
           (wm.ran /\ wm.elapsed >= CurrentWave(wm).timedEvents[i].triggerTime)
      /\ wm.fired[i] = 1 <=> i \in wm.triggeredEvents

\* An event was executed in an earlier step, and an update step that was
\* not spent in the intermission has been taken since; another event of the
\* wave is still to come.
C10_Witness ==
  /\ wm.active /\ last.op = "update" /\ ~last.result
  /\ \E i, j \in 1..Len(CurrentWave(wm).timedEvents) :
       /\ wm.fired[i] = 1
       /\ wm.elapsed - last.amount >= CurrentWave(wm).timedEvents[i].triggerTime
       /\ wm.elapsed - last.amount > 0
       /\ wm.fired[j] = 0

\* The wave of manager w is over: its duration has elapsed or it was
\* skipped, and the manager waits for the next wave.
Waiting(w) ==
  w.intermissionTimer > 0 \/ w.elapsed >= CurrentWave(w).durationSeconds

\* C11: on every update step of a manager whose wave is not the last one:
\* the step in which elapsed reaches the wave's duration calls
\* onWaveComplete once and keeps the wave; every later step calls it no
\* more, counts the intermission down and, as soon as the steps since the
\* wave was over add up to intermissionSeconds, starts wave index + 1 with
\* elapsed 0 and budget 0.
C11_WaveAdvances ==
  [][ (/\ last'.op = "update" /\ wm.active
       /\ wm.waveIndex + 1 < Len(Waves(wm)))
      => IF Waiting(wm)
         THEN /\ wm'.completed = wm.completed
              /\ IF wm.intermissionTimer - last'.amount <= 0
                 THEN /\ wm'.active /\ wm'.waveIndex = wm.waveIndex + 1
                      /\ wm'.elapsed = 0 /\ wm'.budget = 0
                 ELSE /\ wm'.waveIndex = wm.waveIndex
                      /\ wm'.intermissionTimer = wm.intermissionTimer - last'.amount
         ELSE /\ wm'.active /\ wm'.waveIndex = wm.waveIndex
              /\ wm'.elapsed = wm.elapsed + last'.amount
              /\ wm'.completed = wm.completed + (IF Waiting(wm') THEN 1 ELSE 0) ]_vars

\* C12: skipToNextWave on a manager whose wave is running calls
\* onWaveComplete once, for that wave, and returns with the manager ended
\* (last wave, not looping), or running the next wave from elapsed 0 and
\* budget 0 (intermissionSeconds <= 0), or in the intermission with the
\* skipped wave and the store as they were; an update step that stays in
\* the intermission changes neither the budget, nor the elapsed time, nor
\* the enemies spawned of the wave, and creates no entity.
C12_SkipCompletes ==
  [][ /\ (/\ last'.op = "skipToNextWave" /\ wm.active /\ wm.intermissionTimer = 0)
         => /\ wm'.completed = wm.completed + 1
            /\ IF wm.waveIndex >= Len(Waves(wm)) - 1 /\ ~wm.options.loopLastWave
               THEN ~wm'.active /\ em' = em
               ELSE IF wm.options.intermissionSeconds <= 0
               THEN /\ wm'.active /\ wm'.intermissionTimer = 0
                    /\ wm'.waveIndex = Min(wm.waveIndex + 1, Len(Waves(wm)) - 1)
                    /\ wm'.elapsed = 0 /\ wm'.budget = 0 /\ wm'.spawned = 0
                    /\ Len(em'.ent) = Len(em.ent)
               ELSE /\ wm' = [wm EXCEPT
                                !.completed = @ + 1,
                                !.intermissionTimer = wm.options.intermissionSeconds]
                    /\ em' = em
      /\ (/\ last'.op = "update" /\ wm.active
          /\ wm.intermissionTimer > last'.amount)
         => /\ wm' = [wm EXCEPT !.intermissionTimer = @ - last'.amount]
            /\ em' = em ]_vars

\* A wave that had spawned enemies was skipped before its duration was
\* over, and an update step has since been spent in the intermission.
C12_Witness ==
  /\ last.op = "update" /\ last.result
  /\ wm.active /\ wm.intermissionTimer > 0
  /\ wm.spawned > 0 /\ wm.completed = 1
  /\ wm.elapsed < CurrentWave(wm).durationSeconds

-----------------------------------------------------------------------------
(* Properties of the projectile manager                                    *)

\* C2: in every reachable state, after any sequence of spawn and update
\* calls and for every configuration of the pool, the active list holds at
\* most config.maxProjectiles projectiles.
C2_PoolBound == Len(pm.active) <= pm.config.maxProjectiles

\* C13: a spawn call whose type key is not in the registry, or whose
\* direction has length zero, returns null and leaves the manager (pool,
\* active list, records and id counter) and the store as they were.
C13_SpawnRejects ==
  [][ (last'.op = "spawn" /\ (last'.count = 0 \/ last'.amount = 0))
      => /\ ~last'.result
         /\ pm' = pm /\ em' = em ]_vars

\* A spawn call with a direction of length zero has returned null on a
\* manager that has projectiles in flight and records in the pool.
C13_Witness ==
  /\ last.op = "spawn" /\ last.count = 1 /\ last.amount = 0 /\ ~last.result
  /\ pm.active # <<>> /\ pm.pool # <<>> /\ pm.nextId > 1

\* The ids of the projectiles on the active list of p.
ActiveIds(p) == {p.obj[r].id : r \in Range(p.active)}

\* C14: a spawn call with a registered type and a direction, made while the
\* active list holds maxProjectiles projectiles: with reuseOldestWhenFull
\* it returns a projectile, what leaves the active list is exactly the
\* projectile spawned first of those in flight, the others stay as they
\* were and the length of the active list is unchanged; without, it returns
\* null and nothing changes.
C14_SpawnAtCap ==
  [][ (/\ last'.op = "spawn" /\ last'.count = 1 /\ last'.amount # 0
       /\ Len(pm.active) = pm.config.maxProjectiles)
      => IF pm.config.reuseOldestWhenFull
         THEN /\ last'.result
              /\ Len(pm'.active) = Len(pm.active)
              /\ \E oldest \in ActiveIds(pm) :
                   /\ \A id \in ActiveIds(pm) : oldest <= id
                   /\ ActiveIds(pm') = (ActiveIds(pm) \ {oldest}) \cup {pm.nextId}
              /\ \A r \in Range(pm.active) :
                   pm.obj[r].id \in ActiveIds(pm') => pm'.obj[r] = pm.obj[r]
         ELSE ~last'.result /\ pm' = pm /\ em' = em ]_vars

\* The number of targets that projectile id has struck in the step from p
\* to n.
NewHits(p, n, id) == Len(n.flights[id].hits) - Len(p.flights[id].hits)

\* C15: an update step (no tile map is set: there is no wall and no grid to
\* leave) takes off the active list only projectiles whose lifetime ends in
\* the step or that strike, in the step, a target with no pierce left;
\* every other projectile in flight is on the active list, and active, after
\* the step, whatever the other projectiles do in the step.
C15_ReleaseOnlyForCause ==
  [][ last'.op = "projectileUpdate" =>
      \A r \in Range(pm.active) :
        LET q == pm.obj[r] IN
        (/\ q.active /\ q.lifetime > last'.amount
         /\ NewHits(pm, pm', q.id) <= q.pierce)
        => \E k \in Range(pm'.active) :
             pm'.obj[k].id = q.id /\ pm'.obj[k].active ]_vars

\* The id of projectile id is on no record of the active list.
Released(p, id) == \A r \in Range(p.active) : p.obj[r].id # id

\* The enemies, in the order of the enemies list, that a projectile at the
\* place of q could strike.
Struck(m, q) ==
  SelectSeq(m.enemies,
            LAMBDA t : /\ m.ent[t].active /\ t \notin q.hitIds
                       /\ m.ent[t].hasTransform /\ Overlaps(q, m.ent[t]))

\* The enemies that a projectile at the place of q could strike and that
\* are active before and after the step from m to n.
Survivors(m, n, q) ==
  {t \in Range(Struck(m, q)) : n.ent[t].active}

\* C8: a player projectile without chain and with pierce k calls applyDamage
\* on no target twice, on at most k + 1 targets, is off the active list once
\* it has struck k + 1 targets, and is released for a hit only then.  The
\* projectile that an update step handles first and that overlaps, after
\* its move, at least k + 1 enemies it has not struck, strikes the first
\* k + 1 of them in that step, once each, and is released in that step.
\* Every such projectile of the active list that overlaps, after its move,
\* enemies that stay active throughout the step strikes k + 1 targets, or
\* as many as there are such enemies, in that step; so a projectile of
\* pierce 1 over two enemies damages both and is released after the second
\* hit.
C8_Pierce ==
  [][ last'.op = "projectileUpdate" =>
      /\ \A id \in 1..Len(pm'.flights) :
           LET f == pm'.flights[id] IN
           (f.byPlayer /\ f.chain = 0) =>
             /\ \A i, j \in 1..Len(f.hits) : i # j => f.hits[i] # f.hits[j]
             /\ Len(f.hits) <= f.pierce + 1
             /\ Len(f.hits) = f.pierce + 1 => Released(pm', id)
             /\ f.hitRelease => Len(f.hits) = f.pierce + 1
      /\ pm.active # <<>> =>
           LET q == pm.obj[pm.active[1]]
               dt == last'.amount
               moved == [q EXCEPT !.x = q.x + q.dirX * q.speed * dt]
               T == Struck(em, moved)
               n == Min(q.pierce + 1, Len(T))
           IN (/\ q.active /\ q.isPlayerProjectile /\ q.remainingChains = 0
               /\ q.lifetime > dt)
              => /\ pm'.flights[q.id].hits = pm.flights[q.id].hits \o SubSeq(T, 1, n)
                 /\ Len(T) >= q.pierce + 1 => Released(pm', q.id)
                 /\ Len(pm.active) = 1 =>
                      \A k \in 1..n :
                        em'.ent[T[k]].current
                          = TakeDamage(em.ent[T[k]], q.damage).current
      /\ \A r \in Range(pm.active) :
           LET q == pm.obj[r]
               dt == last'.amount
               moved == [q EXCEPT !.x = q.x + q.dirX * q.speed * dt]
               U == Survivors(em, em', moved)
               struck == Len(pm'.flights[q.id].hits) - Len(pm.flights[q.id].hits)
           IN (/\ q.active /\ q.isPlayerProjectile /\ q.remainingChains = 0
               /\ q.lifetime > dt)
              => /\ struck >= Min(q.pierce + 1, Cardinality(U))
                 /\ Cardinality(U) >= q.pierce + 1 => Released(pm', q.id) ]_vars

-----------------------------------------------------------------------------
(* Properties of the tile map                                              *)

\* The tiles of t other than (x, y) are the same in n.
OthersKept(t, n, x, y) ==
  /\ n.width = t.width /\ n.height = t.height
  /\ \A i \in DOMAIN t.tiles :
       (~InBounds(t, x, y) \/ i # Index(t, x, y)) => n.tiles[i] = t.tiles[i]

\* C16: damageWallTile(x, y, amount) on a wall tile in bounds whose
\* durability is below 200 takes amount off the hit points; when they come
\* to 0 or less it returns true and the tile is Floor, walkable, not
\* blocked, with hit points 0 and durability 0, otherwise it returns false
\* and the tile stays a wall with its durability; out of bounds and on a
\* tile that is not a wall it returns false and the map is left as it was.
\* No other tile changes.
C16_DamageWallTile ==
  [][ last'.op = "damageWallTile" =>
        LET x == last'.x
            y == last'.y IN
        IF ~InBounds(tm, x, y) \/ GetTile(tm, x, y).base # Wall
        THEN ~last'.result /\ tm' = tm
        ELSE LET tile == GetTile(tm, x, y)
                 after == GetTile(tm', x, y) IN
             tile.durability < IndestructibleDurability =>
               /\ OthersKept(tm, tm', x, y)
               /\ IF tile.hp - last'.amount <= 0
                  THEN /\ last'.result
                       /\ after = [base |-> Floor, flags |-> FlagWalkable,
                                   hp |-> 0, durability |-> 0]
                       /\ IsWalkable(tm', x, y) /\ ~IsBlocked(tm', x, y)
                  ELSE /\ ~last'.result
                       /\ after = [tile EXCEPT !.hp = tile.hp - last'.amount]
                       /\ IsBlocked(tm', x, y) /\ ~IsWalkable(tm', x, y) ]_vars

\* A wall with 1 hit point left of 3 was damaged by 1 and is floor.
C16_Witness ==
  /\ last.op = "damageWallTile" /\ last.amount = 1 /\ last.result
  /\ last.before.base = Wall /\ last.before.hp = 1 /\ last.before.durability = 3
  /\ GetTile(tm, last.x, last.y).base = Floor
  /\ IsWalkable(tm, last.x, last.y)

\* C17: a wall tile whose durability is 200 or more keeps its base, flags,
\* hit points and durability when damageWallTile is called on it, with
\* whatever amount, and the call returns false; an update of the
\* projectiles leaves it as it is too, so that it never becomes floor.
C17_Indestructible ==
  [][ last'.op \in {"damageWallTile", "projectileUpdate"} =>
        \A i \in DOMAIN tm.tiles :
          (tm.tiles[i].base = Wall /\ tm.tiles[i].durability >= IndestructibleDurability)
            => /\ tm'.tiles[i] = tm.tiles[i]
               /\ (/\ last'.op = "damageWallTile"
                   /\ InBounds(tm, last'.x, last'.y)
                   /\ i = Index(tm, last'.x, last'.y)) => ~last'.result ]_vars

\* A projectile of the player has been stopped by a wall of 200 hit points,
\* which has them all.
C17_Witness ==
  /\ last.op = "projectileUpdate"
  /\ \E id \in DOMAIN pm.flights : pm.flights[id].byPlayer /\ pm.flights[id].wallRelease
  /\ GetTile(tm, 1, 0) = [base |-> Wall, flags |-> FlagBlocked + FlagLosBlock,
                          hp |-> IndestructibleDurability,
                          durability |-> IndestructibleDurability]

-----------------------------------------------------------------------------
(* Properties of the map generator                                         *)

\* C18: generate on a map gives, tile by tile, the base, flags, hit points
\* and durability, and the reachable ratio, that generate with the same
\* configuration (seed included) gives on a new map of the same size.
C18_Deterministic ==
  [][ last'.op = "generate" =>
        LET g == Generate(NewTileMap(tm.width, tm.height, tm.virtualPixelScale),
                          last'.map.config) IN
        /\ tm'.tiles = g.out.tm.tiles
        /\ last'.map.reachable = g.out.reachable
        /\ last'.map.fallback = g.out.fallback ]_vars

\* The tiles of t that a 4-neighbour flood fill over walkable tiles from
\* the tile start visits: the least set that holds start, if walkable, and
\* every walkable tile next to one it holds.
RECURSIVE Grow(_, _)
Grow(t, seen) ==
  LET more == {c \in Cells(t) \ seen :
                 /\ IsWalkable(t, c[1], c[2])
                 /\ \E d \in seen : (c[1] - d[1]) * (c[1] - d[1])
                                    + (c[2] - d[2]) * (c[2] - d[2]) = 1}
  IN IF more = {} THEN seen ELSE Grow(t, seen \cup more)
Flood(t, start) ==
  IF IsWalkable(t, start.x, start.y) THEN Grow(t, {<<start.x, start.y>>}) ELSE {}

\* C19: the number of tiles a flood fill from the spawn tile visits on the
\* map as generate left it is the reachable count of the result, that is
\* reachableRatio * width * height.
C19_ReachableCount ==
  [][ last'.op = "generate" =>
        Cardinality(Flood(tm', last'.map.config.spawn)) = last'.map.reachable ]_vars

\* An accepted map with a walkable tile that cannot be reached from the
\* spawn tile.
C19_Witness ==
  /\ last.op = "generate" /\ ~last.map.fallback
  /\ last.map.reachable > 1
  /\ last.map.reachable < last.map.walkable

\* C20: when every attempt failed, the map returned is the map the last
\* attempt left, and the ratios returned are those of that map.
C20_FallbackIsLastAttempt ==
  [][ (last'.op = "generate" /\ last'.map.fallback /\ last'.map.attempts > 0) =>
        /\ tm'.tiles = last'.map.tried.tiles
        /\ last'.map.reachable = CountReachable(last'.map.tried, last'.map.config.spawn)
        /\ last'.map.walkable = CountWalkable(last'.map.tried) ]_vars

\* The tiles of t on the outer border.
Border(t) ==
  {c \in Cells(t) : c[1] = 0 \/ c[2] = 0 \/ c[1] = t.width - 1 \/ c[2] = t.height - 1}

\* C30: in the map every call of generate leaves, accepted or fallback,
\* every tile of the outer border is a wall that is blocked, not walkable
\* and indestructible (durability >= 200).
C30_OuterWall ==
  [][ last'.op = "generate" =>
        \A c \in Border(tm') :
          /\ GetTile(tm', c[1], c[2]).base = Wall
          /\ IsBlocked(tm', c[1], c[2])
          /\ ~IsWalkable(tm', c[1], c[2])
          /\ GetTile(tm', c[1], c[2]).durability >= IndestructibleDurability ]_vars

\* The projectile at index i of the active list is tested against the walls
\* in an update of dt: it is in flight and does not expire.
Tested(i, dt) ==
  LET q == pm.obj[pm.active[i]] IN q.active /\ q.lifetime - dt > 0

\* The column of the tile under the centre of q once it has moved for dt.
ColumnAfter(q, dt) ==
  FloorDiv(100 * (q.x + q.dirX * q.speed * dt), 100 * tm.virtualPixelScale)

\* How many projectiles of the player, tested before index i in an update
\* of dt, are over column x.
RECURSIVE StruckBefore(_, _, _)
StruckBefore(i, dt, x) ==
  IF i <= 1 THEN 0
  ELSE StruckBefore(i - 1, dt, x)
       + (IF /\ Tested(i - 1, dt)
             /\ pm.obj[pm.active[i - 1]].isPlayerProjectile
             /\ ColumnAfter(pm.obj[pm.active[i - 1]], dt) = x
          THEN 1 ELSE 0)

\* The hit points the tile of column x, a destructible wall before the
\* update, still has when the projectile at index i is tested.
HitPointsAt(i, dt, x) == Max(0, GetTile(tm, x, 0).hp - StruckBefore(i, dt, x))

\* The tile of column x is a destructible wall before the update.
DestructibleWall(x) ==
  /\ InBounds(tm, x, 0)
  /\ GetTile(tm, x, 0).base = Wall
  /\ ~TreatedAsIndestructible(GetTile(tm, x, 0))

\* The tile of column x is a wall no projectile damages.
IndestructibleWall(x) ==
  /\ InBounds(tm, x, 0)
  /\ GetTile(tm, x, 0).base = Wall
  /\ TreatedAsIndestructible(GetTile(tm, x, 0))

\* A step that is an update of dt in which the projectile at index i is
\* tested against the walls.
WallTest(i, dt) ==
  /\ last'.op = "projectileUpdate"
  /\ last'.amount = dt
  /\ i \in 1..Len(pm.active)
  /\ Tested(i, dt)

\* The projectile at index i was released for having hit a wall.
WallReleased(i) == pm'.flights[pm.obj[pm.active[i]].id].wallRelease

\* C23, as the specification states it: a projectile of the player over a
\* destructible wall damages it, continues when the wall was not destroyed
\* and is blocked and released when it was; over an indestructible wall, or
\* when it is not the player's, it is stopped and the tile keeps its hit
\* points.
C23_WallHitAsStated ==
  [][ \A dt \in 1..MaxDt, i \in 1..MaxEntities :
        WallTest(i, dt) =>
          LET q == pm.obj[pm.active[i]]
              x == ColumnAfter(q, dt) IN
          /\ (q.isPlayerProjectile /\ DestructibleWall(x) /\ HitPointsAt(i, dt, x) > 0)
               => /\ GetTile(tm', x, 0).hp < HitPointsAt(i, dt, x)
                  /\ WallReleased(i) <=> HitPointsAt(i, dt, x) - 1 <= 0
          /\ IndestructibleWall(x)
               => WallReleased(i) /\ GetTile(tm', x, 0) = GetTile(tm, x, 0)
          /\ (~q.isPlayerProjectile /\ DestructibleWall(x) /\ HitPointsAt(i, dt, x) > 0)
               => /\ WallReleased(i)
                  /\ GetTile(tm', x, 0).hp = HitPointsAt(Len(pm.active) + 1, dt, x) ]_vars

\* C23, amended: a projectile of the player over a destructible wall
\* damages it, is blocked and released when the wall was not destroyed by
\* that damage, and is not stopped by that tile when it was; over an
\* indestructible wall, or when it is not the player's, it is stopped and
\* the tile loses hit points only to the projectiles of the player.
C23_WallHit ==
  [][ \A dt \in 1..MaxDt, i \in 1..MaxEntities :
        WallTest(i, dt) =>
          LET q == pm.obj[pm.active[i]]
              x == ColumnAfter(q, dt) IN
          /\ (q.isPlayerProjectile /\ DestructibleWall(x) /\ HitPointsAt(i, dt, x) > 0)
               => /\ GetTile(tm', x, 0).hp < HitPointsAt(i, dt, x)
                  /\ WallReleased(i) <=> HitPointsAt(i, dt, x) - 1 > 0
          /\ IndestructibleWall(x)
               => WallReleased(i) /\ GetTile(tm', x, 0) = GetTile(tm, x, 0)
          /\ (~q.isPlayerProjectile /\ DestructibleWall(x) /\ HitPointsAt(i, dt, x) > 0)
               => /\ WallReleased(i)
                  /\ GetTile(tm', x, 0).hp = HitPointsAt(Len(pm.active) + 1, dt, x) ]_vars

\* A projectile of the enemy was stopped by the wall, and a projectile of
\* the player has then destroyed the wall and flown on to hit the enemy.
C23_Witness ==
  /\ last.op = "projectileUpdate"
  /\ tm.built /\ GetTile(tm, 1, 0).base = Floor
  /\ \E a, b \in DOMAIN pm.flights :
       /\ pm.flights[a].byPlayer /\ ~pm.flights[a].wallRelease
       /\ pm.flights[a].hitRelease
       /\ ~pm.flights[b].byPlayer /\ pm.flights[b].wallRelease

\* The flights that were chained from another projectile.
Chained == {id \in DOMAIN pm.flights : pm.flights[id].parent # 0}

\* No target occurs twice among the hits of flight id.
HitsOnce(id) ==
  \A j, k \in DOMAIN pm.flights[id].hits :
    pm.flights[id].hits[j] = pm.flights[id].hits[k] => j = k

\* A chained flight has struck none of the targets its parent held when it
\* chained.
SparesBarred(id) ==
  \A j \in DOMAIN pm.flights[id].hits :
    pm.flights[id].hits[j] \notin pm.flights[id].barred

\* A chained projectile in flight holds the hit ids its parent held.
HoldsBarred(ref) ==
  (pm.obj[ref].active /\ pm.obj[ref].id \in Chained)
    => pm.flights[pm.obj[ref].id].barred \subseteq pm.obj[ref].hitIds

\* C24: no projectile applies damage twice to one target during its flight,
\* and a chained projectile never applies damage to a target its parent had
\* hit when the chain was spawned: its hit-id set holds the parent's, also
\* when its record was recycled at the cap.
C24_NoRepeatedHit ==
  /\ \A id \in DOMAIN pm.flights : HitsOnce(id)
  /\ \A id \in Chained : SparesBarred(id)
  /\ \A ref \in Range(pm.active) : HoldsBarred(ref)

\* The record a spawn step has put at the end of the active list.
Spawned == pm'.obj[pm'.active[Len(pm'.active)]]

\* C25: every projectile that spawn returns, whatever the record it
\* recycles was used for, has an empty hit-id set, and the effects, pierce,
\* remaining chains, chain range and colour that the options of this call
\* give.
C25_FreshSpawn ==
  [][ (last'.op = "spawn" /\ last'.result /\ last'.options # <<>>) =>
        LET o == last'.options IN
        /\ Spawned.id = pm.nextId
        /\ Spawned.hitIds = {}
        /\ Spawned.effects = o.effects
        /\ Spawned.pierce = (IF o.pierce = Absent \/ o.pierce < 0 THEN 0 ELSE o.pierce)
        /\ Spawned.remainingChains = (IF o.chain = Absent \/ o.chain < 0 THEN 0 ELSE o.chain)
        /\ Spawned.chainRange = (IF o.chainRange = Absent \/ o.chainRange <= 0
                                 THEN DefaultChainRange ELSE o.chainRange)
        /\ Spawned.colorOverride = o.color ]_vars

\* The plain weapon has just been given a record while every record of the
\* pool is in flight, one of them the record of an earlier projectile that
\* had a hit id, an effect, a colour and a chain range of its own and left
\* the active list by expiry or by eviction at the cap.
C25_Witness ==
  /\ last.op = "spawn" /\ last.result
  /\ last.options = ProjectileOptions(Absent, 0, <<>>, 0)
  /\ Len(pm.pool) = 0 /\ Len(pm.active) = pm.config.maxProjectiles
  /\ \E id \in DOMAIN pm.flights :
       /\ pm.flights[id].hits # <<>>
       /\ pm.flights[id].pierce = 1
       /\ ~pm.flights[id].hitRelease
       /\ \A ref \in Range(pm.active) : pm.obj[ref].id # id

\* The positive costs of the active cost table, and some cost of it.
PositiveCosts == {wm.costs[t] : t \in {u \in DOMAIN wm.costs : wm.costs[u] > 0}}
AnyCost == {wm.costs[t] : t \in DOMAIN wm.costs}

\* A step of update that runs the wave (no intermission).
RunsWave == last'.op = "update" /\ ~last'.result

\* The budget stays above the cheapest positive cost less the largest cost.
BudgetFloor ==
  \A lo \in PositiveCosts, hi \in AnyCost :
    ((\A c \in PositiveCosts : lo <= c) /\ (\A c \in AnyCost : c <= hi))
      => wm'.budget >= (lo - hi) * TicksPerSecond

\* C26, as the specification states it: after every step the budget is at
\* least the cheapest positive cost less the largest cost of the table, and
\* a step that starts with a budget below the cheapest positive cost spawns
\* nothing.
C26_BudgetAsStated ==
  [][ RunsWave =>
        /\ BudgetFloor
        /\ (\A c \in PositiveCosts : wm.budget < c * TicksPerSecond)
             => wm'.spawned = wm.spawned ]_vars

\* C26, amended: after every step the budget is at least the cheapest
\* positive cost less the largest cost of the table, and a step in which
\* the budget with the accrual of the step is below the cheapest positive
\* cost spawns nothing.
C26_Budget ==
  [][ RunsWave =>
        /\ BudgetFloor
        /\ (\A c \in PositiveCosts :
              wm.budget + CurrentWave(wm).budgetPerSecond * last'.amount
                < c * TicksPerSecond)
             => wm'.spawned = wm.spawned ]_vars

\* A spawn has left the budget below zero in a table with a cheaper type,
\* after a step in which the budget had stayed below the cheapest cost.
C26_Witness ==
  /\ last.op = "update" /\ ~last.result
  /\ wm.budget < 0 /\ wm.spawned > 0
  /\ PositiveCosts # {} /\ 1 \in PositiveCosts
  /\ wm.elapsed > 1

\* The number of enemies the store of a state holds.
Population(m) == Len(m.enemies)

\* C27: a step of update ends, having made at most 64 continuous spawns
\* whatever the budget, the cost table and the mix, and none beyond the
\* room the spawn controller has.
C27_BoundedSpawns ==
  [][ RunsWave =>
        /\ wm'.spawned - wm.spawned <= MaxAttempts
        /\ wm'.spawned - wm.spawned <= Max(0, sc.maxEnemies - Population(em))
        /\ Population(em') = Population(em) + wm'.spawned - wm.spawned ]_vars

\* The first step of a wave has made 64 spawns, with room in the store and
\* budget left for more, over a table with a cost that is not positive.
C27_Witness ==
  /\ last.op = "update" /\ ~last.result
  /\ wm.spawned = MaxAttempts /\ wm.elapsed = 1
  /\ Population(em) < sc.maxEnemies
  /\ \E c \in AnyCost : c <= 0
  /\ \E c \in PositiveCosts : wm.budget >= 2 * c * TicksPerSecond

\* The effects of the bundle of id that a tick of dt leaves alive, as
\* places in the bundle before the tick.
LiveAfter(id, dt) ==
  {k \in DOMAIN BundleOf(cs, id).effects :
     BundleOf(cs, id).effects[k].remaining - dt > 0}

\* The smallest number of a set.
Least(S) == CHOOSE v \in S : \A u \in S : v <= u

\* C28: after a tick of update, an entity that has a status bundle with
\* recorded base speed b stands still when a freeze or a stun is still
\* alive, and otherwise moves at b times the smallest of 1 and of 1 - pct
\* over the slows still alive: slows do not compound, and effects that have
\* run out do not count.
C28_LiveSpeed ==
  [][ \A id \in Ids :
        (last'.op = "update" /\ HasBundle(cs', id)) =>
          LET before == BundleOf(cs, id).effects
              live == LiveAfter(id, last'.amount)
              b == BundleOf(cs', id).base IN
          /\ b # NoBase
          /\ IF \E k \in live : before[k].type \in {"freeze", "stun"}
             THEN em'.ent[id].speed = 0
             ELSE em'.ent[id].speed * 10 =
                    b * Least({10} \cup {10 - before[k].pct :
                                           k \in {j \in live : before[j].type = "slow"}}) ]_vars

\* After a tick an enemy under two slows of 0.4, both alive, moves at 0.6
\* of its base speed (and not at 0.36 of it).
C28_Witness ==
  /\ last.op = "update"
  /\ \E id \in Ids :
       /\ HasBundle(cs, id)
       /\ Len(BundleOf(cs, id).effects) = 2
       /\ BundleOf(cs, id).effects[1].type = "slow"
       /\ BundleOf(cs, id).effects[2].type = "slow"
       /\ BundleOf(cs, id).effects[1].pct = 4
       /\ BundleOf(cs, id).effects[2].pct = 4
       /\ em.ent[id].speed * 10 = BundleOf(cs, id).base * 6
       /\ em.ent[id].speed > 0

\* The damage over time the bundle of id deals in a tick of dt, and the
\* number of effects that deal it: the burns and poisons with dps > 0 that
\* the tick leaves alive.
RECURSIVE DotOf(_, _, _)
DotOf(effects, dt, each) ==
  IF effects = <<>> THEN 0
  ELSE DotOf(Tail(effects), dt, each)
       + (IF /\ Head(effects).type \in {"burn", "poison"}
             /\ Head(effects).dps > 0
             /\ Head(effects).remaining - dt > 0
          THEN (IF each THEN Head(effects).dps * dt ELSE 1) ELSE 0)

\* The entities whose bundle a tick works on.
Afflicted ==
  {id \in Ids : /\ HasBundle(cs, id)
                /\ InStore(em, id) /\ em.ent[id].active
                /\ em.ent[id].hasHealth /\ em.ent[id].hasTransform}

RECURSIVE DotCalls(_, _)
DotCalls(ids, dt) ==
  IF ids = {} THEN 0
  ELSE LET id == CHOOSE i \in ids : TRUE IN
       DotOf(BundleOf(cs, id).effects, dt, FALSE) + DotCalls(ids \ {id}, dt)

\* C29: in a tick of update every live burn or poison with dps > 0 takes
\* dps * dt from the health of its entity, also while the entity is
\* invulnerable, and leaves the invulnerability timer as health.update
\* left it in that tick.
C29_DotThroughInvulnerability ==
  [][ last'.op = "update" =>
        /\ last'.dmgCalls = DotCalls(Afflicted, last'.amount)
        /\ \A id \in Afflicted :
             /\ em'.ent[id].current =
                  Max(0, em.ent[id].current
                         - DotOf(BundleOf(cs, id).effects, last'.amount, TRUE))
             /\ em'.ent[id].invulnTimer = Max(0, em.ent[id].invulnTimer - last'.amount) ]_vars

\* A tick has burnt the player, who is invulnerable before and after it.
C29_Witness ==
  /\ last.op = "update" /\ last.dmgCalls > 0
  /\ em.player # 0
  /\ em.ent[em.player].current < em.ent[em.player].max
  /\ em.ent[em.player].invulnTimer > 0
-----------------------------------------------------------------------------
(* Properties of the entity store under removal                            *)

\* The entities that the lists and the player slot of the store hold.
Listed(m) ==
  Range(m.entities) \cup Range(m.enemies) \cup Range(m.pickups)
  \cup (IF m.player = 0 THEN {} ELSE {m.player})

ListedAreActive(m) == \A id \in Listed(m) : m.ent[id].active

\* The entity is inactive and no list and no slot of the store holds it.
Purged(m, id) == ~m.ent[id].active /\ id \notin Listed(m)

\* How often id occurs in the sequence s.
Occurrences(s, id) == Cardinality({i \in 1..Len(s) : s[i] = id})

\* The targets that the flight id has struck in the step.
HitsAdded(id) ==
  SubSeq(pm'.flights[id].hits, Len(pm.flights[id].hits) + 1,
         Len(pm'.flights[id].hits))

\* C22: after removeEntity(e), e is inactive and absent from the list of
\* all entities, the enemies, the pickups and the player slot, and so is
\* every entity that a step removes from inside a callback (a death);
\* every entity that a list or the player slot holds is active, before and
\* after every step.  A pass of EntityManager.update handles no entity
\* twice, handles every entity of the list it began with that is still
\* active after the pass, and handles the entities in the order of that
\* list, also when the attack callback removes the player during the pass.
\* The hit test of a projectile in ProjectileManager.update strikes, in the
\* order of the enemies list, the first pierce + 1 enemies that it overlaps
\* and has not struck, each once and none left out, also when a hit
\* removes an enemy during the test.
C22_RemovalIsSafe ==
  [][ /\ ListedAreActive(em) /\ ListedAreActive(em')
      /\ last'.op = "removeEntity" => Purged(em', last'.target)
      /\ \A id \in 1..Len(em.ent) :
           (em.ent[id].active /\ ~em'.ent[id].active) => Purged(em', id)
      /\ last'.op = "entityUpdate" =>
           LET turns == last'.turns IN
           /\ \A id \in 1..Len(em.ent) : Occurrences(turns, id) <= 1
           /\ Range(turns) \subseteq Range(em.entities)
           /\ \A id \in Range(em.entities) :
                em'.ent[id].active => Occurrences(turns, id) = 1
           /\ turns = SelectSeq(em.entities, LAMBDA id : id \in Range(turns))
      /\ (last'.op = "projectileUpdate" /\ pm.active # <<>>) =>
           LET q == pm.obj[pm.active[1]]
               dt == last'.amount
               moved == [q EXCEPT !.x = q.x + q.dirX * q.speed * dt]
               reach == Struck(em, moved)
           IN (q.active /\ q.isPlayerProjectile /\ q.lifetime > dt) =>
                /\ \A t \in Range(em.enemies) : Occurrences(HitsAdded(q.id), t) <= 1
                /\ HitsAdded(q.id) = SubSeq(reach, 1, Min(q.pierce + 1, Len(reach)))
    ]_vars

\* An update pass in which the attack of an enemy killed the player, after
\* which the pass went on to the pickup behind that enemy; an enemy had
\* died of a projectile hit before.
C22_Witness ==
  /\ last.op = "entityUpdate" /\ last.killCalls = 1
  /\ em.player = 0
  /\ \E id \in Range(last.turns) : em.ent[id].type = "pickup"
  /\ \E t \in 1..Len(em.ent) :
       /\ em.ent[t].type = "enemy" /\ ~em.ent[t].active
       /\ em.ent[t].killedNotified = 1
-----------------------------------------------------------------------------
(* Properties of the simulation step                                       *)

\* The order of the second half of a step as the description has it:
\* combatSystem.update(dt), then projectileManager.update(dt).
AsStated(S, dt) == ProjectileUpdate([S EXCEPT !.w = CombatUpdate(S.w, dt)], dt)

\* The step has led to the store, the statuses, the projectiles and the
\* waves that the opening o followed by the flying state S gives.
ReachedBy(o, S) ==
  /\ em' = S.w.em /\ cs' = S.w.cs /\ pm' = S.pm
  /\ sc' = o.sc /\ wm' = o.wm

StatedOutcome(o, dt) == ReachedBy(o, AsStated(o.r.s, dt))

\* The targets that the flight id has struck in the step, for a flight of
\* the step or of an earlier one.
TickHits(id) ==
  IF id <= Len(pm.flights) THEN HitsAdded(id) ELSE pm'.flights[id].hits

\* The entity t carries a slow with the given time left.
SlowedFor(c, t, remaining) ==
  /\ HasBundle(c, t)
  /\ \E i \in 1..Len(BundleOf(c, t).effects) :
       /\ BundleOf(c, t).effects[i].type = "slow"
       /\ BundleOf(c, t).effects[i].remaining = remaining

\* C21 as stated: every step that is not paused advances the wave manager,
\* then the entity store, then the combat system, then the projectile
\* manager, so that the projectiles of the step are resolved on the status
\* effects already decayed for the step: the step leads to the state that
\* these updates give in this order.
C21_OrderAsStated ==
  [][ last'.op = "tick" =>
      \E rnd \in Randoms, x \in SpawnXs(sc) :
        StatedOutcome(Opening(last'.amount, last'.options, rnd, x), last'.amount)
    ]_vars

\* C21: every step that is not paused advances the wave manager, then the
\* entity store, then the projectile manager, then the combat system.  An
\* enemy that the wave manager spawns in the step is handled by the entity
\* pass of that step, and so is every enemy of the store, also one that a
\* projectile kills in the step; an attack of the entity pass meets the
\* invulnerability of the player as the step before left it, which the
\* step then lowers by dt; and a slow that a projectile of the step puts on
\* a target that stays alive has lost dt of its time at the end of the
\* step: the projectiles are resolved before the statuses decay.
C21_Order ==
  [][ last'.op = "tick" =>
      LET dt == last'.amount
          p == em.player IN
      /\ \A t \in (Len(em.ent) + 1)..Len(em'.ent) : t \in Range(last'.turns)
      /\ \A t \in Range(em.enemies) : t \in Range(last'.turns)
      /\ em.ent[p].invulnTimer > 0 =>
           /\ em'.ent[p].current = em.ent[p].current
           /\ em'.ent[p].invulnTimer = Max(0, em.ent[p].invulnTimer - dt)
      /\ \A id \in 1..Len(pm'.flights) :
           \A t \in Range(TickHits(id)) :
             em'.ent[t].active => SlowedFor(cs', t, EffectDuration - dt)
    ]_vars

\* A step in which the wave manager spawned an enemy that the entity pass
\* then handled, behind the player and the first enemy, and in which a
\* projectile put a slow on an enemy: of the time of the slow, dt is gone.
C21_Witness ==
  /\ last.op = "tick" /\ last.options # <<>>
  /\ Len(last.turns) = 3
  /\ \E t \in Range(em.enemies) : SlowedFor(cs, t, EffectDuration - last.amount)
\* The distance between two places on the line.
Gap(a, b) == IF a >= b THEN a - b ELSE b - a

\* C31: the attack handler of an enemy is called in an update pass only if,
\* at the place the pass has moved the enemy to, the player is within the
\* aggression radius and within the attack range of the enemy, and the
\* cooldown timer and the lock timer of its AI and the lock timer of its
\* Attack component are 0 once the pass has lowered them by dt; after the
\* call the cooldown timer is attackCooldown and the lock timer is
\* attackLockDuration; and between two calls in a row for the same enemy at
\* least attackCooldown frames of update time pass.
C31_AttackGate ==
  [][ last'.op = "entityUpdate" =>
        \A id \in 1..Len(em.ent) :
          last'.since[id].n # last.since[id].n =>
            LET e == em.ent[id]
                e1 == em'.ent[id]
                p == em'.ent[em.player]
                dt == last'.amount
            IN /\ last'.since[id].n = last.since[id].n + 1
               /\ Gap(p.x, e1.x) <= e1.ai.aggressionRadius
               /\ Gap(p.x, e1.x) <= e1.ai.attackRange
               /\ e.cooldownTimer <= dt /\ e.lockedTimer <= dt /\ e.lockTimer <= dt
               /\ e1.cooldownTimer = e1.ai.attackCooldown
               /\ e1.lockedTimer = e1.ai.attackLockDuration
               /\ last.since[id].n > 0 =>
                    last.since[id].t + dt >= e1.ai.attackCooldown
    ]_vars

\* A SmallChaser has attacked for the second time, three passes of 15 frames
\* after the first, in a pass before which it was within reach of the player
\* for the whole of its cooldown, and a Tank that the player is within reach
\* of is held back by its cooldown.
C31_Witness ==
  /\ last.op = "entityUpdate" /\ last.amount = 15
  /\ last.since[2] = [n |-> 2, t |-> 0]
  /\ last.since[3].n = 1 /\ last.since[3].t = 45
  /\ em.ent[3].cooldownTimer > 0
  /\ Gap(em.ent[em.player].x, em.ent[3].x) <= em.ent[3].ai.attackRange
\* The tile of the row that holds the place x.
TileOf(x) == x \div TileSize

\* C32: with a tile map set, every enemy that spawnEnemyType has created,
\* in each of the three placement modes and for every place of the player,
\* stands where the tile is in bounds, walkable and not blocked.
C32_SpawnOnOpenTile ==
  \A id \in Range(em.enemies) :
    /\ InBounds(tm, TileOf(em.ent[id].x), 0)
    /\ IsWalkable(tm, TileOf(em.ent[id].x), 0)
    /\ ~IsBlocked(tm, TileOf(em.ent[id].x), 0)

\* C33: a call of spawnOne draws at most 20 tiles in its search for a
\* walkable tile, and after the search is exhausted the one position drawn
\* by the global fallback is the result: the call searches no further.
C33_BoundedDraws ==
  /\ sc.pick.tileDraws <= PlaceAttempts
  /\ sc.pick.rounds <= 1
  /\ sc.pick.rounds = 1 => sc.pick.pc \in {"world", "idle"}
\* The manager has ended: getState() is null, and neither update nor
\* skipToNextWave changes the manager, the controller or the store (no
\* enemy is spawned, no callback is called).
Inert(m, c, w) ==
  /\ ~w.active
  /\ SkipToNextWave(Stage(m, c, w)) = Stage(m, c, w)
  /\ \A dt \in 1..MaxDt, rnd \in Randoms, x \in SpawnXs(c) :
       WaveUpdate(Stage(m, c, w), dt, rnd, x) = Stage(m, c, w)

\* The wave of the manager is the last of its list.
OnLastWave(w) == w.waveIndex >= Len(Waves(w)) - 1

\* C34: the wave index never decreases and never exceeds waves.length - 1;
\* the step in which the last wave completes with loopLastWave = false ends
\* the manager, after which update and skipToNextWave do nothing; and with
\* loopLastWave = true the update steps after the last wave is over count
\* the intermission down and, as soon as they add up to intermissionSeconds,
\* start the last wave again with elapsed 0, budget 0, no triggered event
\* and the endless flag set.
C34_WaveOrder ==
  [][ /\ wm'.waveIndex >= wm.waveIndex
      /\ wm'.waveIndex <= Len(Waves(wm')) - 1
      /\ (/\ wm.active /\ OnLastWave(wm) /\ ~wm.options.loopLastWave
          /\ wm'.completed > wm.completed)
         => Inert(em', sc', wm')
      /\ (/\ last'.op = "update" /\ wm.active /\ OnLastWave(wm)
          /\ wm.options.loopLastWave /\ Waiting(wm))
         => IF wm.intermissionTimer - last'.amount <= 0
            THEN /\ wm'.active /\ wm'.waveIndex = wm.waveIndex
                 /\ wm'.elapsed = 0 /\ wm'.budget = 0
                 /\ wm'.triggeredEvents = {} /\ wm'.endlessMode
                 /\ wm'.completed = wm.completed
            ELSE /\ wm'.intermissionTimer = wm.intermissionTimer - last'.amount
                 /\ wm'.elapsed = wm.elapsed /\ wm'.completed = wm.completed
    ]_vars

\* C35: onWaveComplete is called exactly once for every run of a wave,
\* whatever the order of update and skipToNextWave: a step calls it at most
\* once and only for a run that it has not been called for, and a step
\* that starts a wave or ends the manager leaves a run that it has been
\* called for.
C35_CompleteOnce ==
  [][ /\ wm'.completed <= wm.completed + 1
      /\ wm'.completed > wm.completed => (wm.active /\ ~Waiting(wm))
      /\ (wm.active /\ (~wm'.active \/ (wm'.elapsed = 0 /\ ~wm'.ran /\ wm.ran)))
         => (Waiting(wm) \/ wm'.completed = wm.completed + 1)
    ]_vars
\* C36: after every ProjectileManager.update, every record of the active
\* list is active, no record is on the active list twice, and no record is
\* both on the active list and in the free pool.
C36_ActiveListSound ==
  last.op = "projectileUpdate" =>
    /\ \A i \in 1..Len(pm.active) : pm.obj[pm.active[i]].active
    /\ \A i, j \in 1..Len(pm.active) : pm.active[i] = pm.active[j] => i = j
    /\ Range(pm.active) \cap Range(pm.pool) = {}
\* C37: status effects never change a speed for good, whatever effects are
\* put on an entity and whenever, between the ticks of update: an entity of
\* the store that has no status bundle moves at the speed it had before its
\* first effect, and after a tick every bundle left has an effect that has
\* not run out and has that speed recorded as its base.
C37_SpeedRestored ==
  [][ \A id \in Ids :
        (InStore(em', id) /\ em'.ent[id].active) =>
          /\ ~HasBundle(cs', id) => em'.ent[id].speed = BuiltSpeed(em'.ent[id])
          /\ (last'.op = "update" /\ HasBundle(cs', id)) =>
               /\ BundleOf(cs', id).effects # <<>>
               /\ \A k \in DOMAIN BundleOf(cs', id).effects :
                    BundleOf(cs', id).effects[k].remaining > 0
               /\ BundleOf(cs', id).base = BuiltSpeed(em'.ent[id])
    ]_vars

\* A tick has ended the last effects of a Tank that stood still under them:
\* its bundle is gone and it moves at its base speed again, while a
\* SmallChaser is still slowed.
C37_Witness ==
  /\ last.op = "update"
  /\ \E id \in Ids :
       /\ em.ent[id].enemyType = "Tank" /\ em.ent[id].active
       /\ last.turns[id] = 0
       /\ ~HasBundle(cs, id)
       /\ em.ent[id].speed = BuiltSpeed(em.ent[id])
  /\ \E id \in Ids :
       /\ em.ent[id].enemyType = "SmallChaser" /\ em.ent[id].active
       /\ HasBundle(cs, id)
       /\ em.ent[id].speed < BuiltSpeed(em.ent[id])

\* C38: a wall made by setWallTile(x, y, h, false) with h >= 1 is
\* destructible and falls at exactly the h-th damageWallTile(x, y, 1): each
\* call on it returns true when it is the h-th since the wall was made and
\* false before, and after the call the tile is a wall exactly when fewer
\* than h hits have landed.
C38_HitPointsCount ==
  [][last'.op = "damageWallTile" =>
       /\ last'.result = (last'.count = last'.amount)
       /\ (GetTile(tm', last'.x, 0).base = Wall) = (last'.count < last'.amount)]_vars

\* The blobs the draws of a round can give on the map t: a radius of the
\* configured range and a centre of the range of that radius.
Drawable(t, config) ==
  {b \in (config.blobRadiusMin..config.blobRadiusMax) \X (0..t.width) \X (0..t.height) :
     /\ CentreMin(b[1]) <= b[2] /\ b[2] <= CentreMax(b[1], t.width)
     /\ CentreMin(b[1]) <= b[3] /\ b[3] <= CentreMax(b[1], t.height)}

\* C39: the loop of scatterBlobs ends after finitely many blobs, also when
\* the target cannot be reached: while the loop goes on because fewer tiles
\* are painted than it wants, some blob a round can draw paints a tile (where
\* none does, painted stays as it is in every later round and the condition
\* of the loop stays true, so generate does not return).
C39_BlobLoopEnds ==
  (InBlobLoop /\ MoreTilesWanted(tm, last.map.config, last.map.painted)) =>
    \E b \in Drawable(tm, last.map.config) :
      PaintBlob([tm |-> tm, rng |-> last.map.rng], b[2], b[3], b[1]).painted > 0

\* The tiers of the weapons of c, slot by slot.
Tiers(c) == [i \in 1..Len(c.weapons) |-> c.weapons[i].currentTier]

\* C40: the ore balance is never negative and no weapon's tier exceeds 5;
\* a tryUpgrade(slot) that returns true has deducted exactly the costOre of
\* the next tier of the weapon in the slot and raised that weapon's
\* currentTier by exactly 1, leaving the other weapons as they were, and one
\* that returns false has left the ore and every weapon unchanged.
C40_UpgradeAccounting ==
  [][/\ wc'.ore >= 0
     /\ \A i \in 1..Len(wc'.weapons) : wc'.weapons[i].currentTier <= MaxTiers
     /\ last'.op = "tryUpgrade" =>
          IF last'.result
          THEN /\ last'.target \in 0..(Len(wc.weapons) - 1)
               /\ LET w == wc.weapons[last'.target + 1] IN
                  /\ w.currentTier < Len(WeaponRegistry[w.blueprintId])
                  /\ wc'.ore = wc.ore - WeaponRegistry[w.blueprintId][w.currentTier + 1]
                  /\ Tiers(wc') = [Tiers(wc) EXCEPT ![last'.target + 1] = @ + 1]
          ELSE /\ wc'.ore = wc.ore
               /\ wc'.weapons = wc.weapons]_vars

\* C40 witness: an upgrade was paid for and brought a weapon to tier 5, the
\* ore left being less than any tier costs.
C40_Witness ==
  /\ last.op = "tryUpgrade" /\ last.result
  /\ wc.weapons[last.target + 1].currentTier = MaxTiers
  /\ wc.ore < 12

=============================================================================
